---- MODULE Spec2Model ----
(***************************************************************************)
(* GrafikZabka backend (src/backend/main.go): the in-memory authorization  *)
(* registry (employerShops, employeeShops), the session store and the HTTP *)
(* handlers that read and change them, as a state machine.                 *)
(*                                                                         *)
(* Text values (emails, names) are sequences of one-character strings, so  *)
(* that strings.TrimSpace and strings.ToLower are computed, not assumed.   *)
(* Go maps are reference values: a Shop struct copied out of employerShops *)
(* still points at the same Employees and Spreadsheets maps.  The maps     *)
(* live in `heap`; a Shop value carries the reference `ref`.               *)
(* Every critical section of the code is one atomic action; the steps of a *)
(* handler between two critical sections are separate actions, so other   *)
(* requests interleave exactly where the code holds no lock.               *)
(* The external spreadsheet/drive store is the environment: under the      *)
(* registry specifications each call to it answers nondeterministically;   *)
(* the document specifications keep its documents (grants, month tabs,     *)
(* management tab) in `store`.  The schedule table of the browser client   *)
(* (calculateHours) is `view`.                                             *)
(***************************************************************************)
EXTENDS Integers, Sequences, FiniteSets, TLC

(* ------------------------------------------------------------------ *)
(* Bounds                                                               *)
(* ------------------------------------------------------------------ *)

\* Shop objects ever allocated (the default shop of init() included).
MaxShopObjects == 2

(* ------------------------------------------------------------------ *)
(* Text                                                                 *)
(* ------------------------------------------------------------------ *)

IsSpace(c) == c \in {" ", "\t"}

RECURSIVE TrimLeft(_)
TrimLeft(s) ==
    IF s = <<>> THEN <<>>
    ELSE IF IsSpace(Head(s)) THEN TrimLeft(Tail(s)) ELSE s

RECURSIVE TrimRight(_)
TrimRight(s) ==
    IF s = <<>> THEN <<>>
    ELSE IF IsSpace(s[Len(s)]) THEN TrimRight(SubSeq(s, 1, Len(s) - 1)) ELSE s

\* strings.TrimSpace
TrimSpace(s) == TrimRight(TrimLeft(s))

LowerChar(c) ==
    CASE c = "X" -> "x"
      [] c = "Y" -> "y"
      [] c = "A" -> "a"
      [] c = "B" -> "b"
      [] OTHER -> c

\* strings.ToLower
ToLower(s) == [i \in 1..Len(s) |-> LowerChar(s[i])]

(* ------------------------------------------------------------------ *)
(* Maps (Go map values)                                                 *)
(* ------------------------------------------------------------------ *)

EmptyMap == [k \in {} |-> 0]

Put(m, k, v) == [x \in (DOMAIN m) \cup {k} |-> IF x = k THEN v ELSE m[x]]

Delete(m, k) == [x \in (DOMAIN m) \ {k} |-> m[x]]

Has(m, k) == k \in DOMAIN m

Range(s) == {s[i] : i \in DOMAIN s}

(* ------------------------------------------------------------------ *)
(* Domains                                                              *)
(* ------------------------------------------------------------------ *)

UX == <<"x">>
UY == <<"y">>
UA == <<"a">>
UB == <<"b">>

\* Identities the identity provider may return at login.
Identities == {UX, UY, UA, UB}

\* getEmployerEmails(): the configured allow-list, as split from the
\* environment (entries are compared trimmed and lower-cased).
getEmployerEmails == {<<"x">>, <<" ", "Y">>}

ShopIds == {"s1", "s2"}
DocIds == {"d1", "d2"}
Years == {2025}
Procs == {"p1", "p2"}

\* The slots that serve requests one after another.
Serial == {"p1"}

\* Request inputs.
ShopNameInputs == {<<" ">>, <<" ", "m", " ">>}
RateInputs == {-10, 0, 305}
AddInputs ==
    {[emp |-> UA, name |-> <<" ">>, rate |-> 0]} \cup
    {[emp |-> UA, name |-> <<"n", " ">>, rate |-> r] : r \in RateInputs}
RemoveInputs ==
    {[shop |-> "", emp |-> UA]} \cup {[shop |-> id, emp |-> UA] : id \in ShopIds}

\* generateRandomString(32) for a session id.  A session's role follows from
\* its identity ("employer" on the allow-list, else "employee": a login that
\* resolves to "unauthorized" stores nothing), so the registry handlers treat
\* two sessions of one identity alike; each identity draws one token here.
SessionToken(email) == email

\* Hourly rates are kept in tenths: 30.0 is 300.
DefaultRate == 300
InitRate == 305

NoShop == [ID |-> "", Name |-> <<>>, ref |-> 0]

VARIABLES
    employerShops,  \* employer email -> (shop id -> Shop)
    heap,           \* ref -> [Employees, Spreadsheets]: the maps of a Shop
    employeeShops,  \* employee email -> sequence of shop ids
    sessions,       \* session token -> [email, role]
    pc,             \* per request slot: where its handler stands
    req,            \* per request slot: session copy and request inputs
    loc,            \* per request slot: the handler's local variables
    resp,           \* per request slot: the response written
    disk,           \* the data directory: [names, inodes]
    goroutines,     \* init and the background saves: sequence of records
    store,          \* the external store: document id -> [grants, tabs, management]
    serviceCache,   \* [entries: email -> client, built: the emails of the clients made]
    view            \* the schedule table in the browser: [cell, hours, done, table]

vars == <<employerShops, heap, employeeShops, sessions, pc, req, loc, resp,
          disk, goroutines, store, serviceCache, view>>

\* The Authorization Registry.
Reg == <<employerShops, heap, employeeShops>>

(* ------------------------------------------------------------------ *)
(* Registry reads                                                       *)
(* ------------------------------------------------------------------ *)

\* Variant: the shop exists under some employer.
ShopExists_anyEmployer(e, id) ==
    \E o \in DOMAIN employerShops : Has(employerShops[o], id)

\* employerShops[e] != nil && employerShops[e][id] exists
ShopExists(e, id) == Has(employerShops, e) /\ Has(employerShops[e], id)

\* employerShops[e][id]; a missing key reads as the zero Shop
ShopOf(e, id) ==
    IF Has(employerShops, e) /\ Has(employerShops[e], id) THEN employerShops[e][id]
    ELSE NoShop

\* shop.Employees, shop.Spreadsheets; the zero Shop has nil maps
Employees(shop) == IF shop.ref \in DOMAIN heap THEN heap[shop.ref].Employees ELSE EmptyMap

Spreadsheets(shop) ==
    IF shop.ref \in DOMAIN heap THEN heap[shop.ref].Spreadsheets ELSE EmptyMap

\* employeeShops[email] (nil when absent)
ShopIDsOf(email) == IF Has(employeeShops, email) THEN employeeShops[email] ELSE <<>>

isEmployer(email) ==
    \E employer \in getEmployerEmails :
        ToLower(TrimSpace(employer)) = ToLower(TrimSpace(email))

\* Variant: every employer with a shop, whatever the reverse index holds.
findEmployersForEmployee_noIndex(email) ==
    {e \in DOMAIN employerShops : DOMAIN employerShops[e] # {}}

findEmployersForEmployee(email) ==
    {e \in DOMAIN employerShops :
        \E id \in DOMAIN employerShops[e] : id \in Range(ShopIDsOf(email))}

getUserRole(email) ==
    IF isEmployer(email) THEN "employer"
    ELSE IF findEmployersForEmployee(email) # {} THEN "employee"
    ELSE "unauthorized"

ShopInfo(shop) ==
    [ID |-> shop.ID, Name |-> shop.Name,
     EmployeeCount |-> Cardinality(DOMAIN Employees(shop))]

findShopsForEmployee(email) ==
    {ShopInfo(ShopOf(e, id)) :
        <<e, id>> \in {x \in (DOMAIN employerShops) \X ShopIds :
                          /\ Has(employerShops[x[1]], x[2])
                          /\ x[2] \in Range(ShopIDsOf(email))}}

\* handleShops GET, employer branch
ShopsOfEmployer(email) ==
    IF Has(employerShops, email)
    THEN {ShopInfo(ShopOf(email, id)) : id \in DOMAIN employerShops[email]}
    ELSE {}

(* ------------------------------------------------------------------ *)
(* Request slots                                                        *)
(* ------------------------------------------------------------------ *)

\* req[p]: the handler's copy of the session and what it has decoded of the
\* request so far (query parameters and JSON body); `query` is the shop_id
\* query parameter of DELETE /api/shops, which the handler never reads, and
\* `body` tells whether that request carries a JSON body.
\* `sent` keeps the hourly rate as the client sent it (`rate` is the
\* handler's req.HourlyRate, which the handler overwrites).
\* `token` is the session_id cookie; the registry handlers never use it
\* after their lookup and leave it out.
NoReq == [op |-> "none", email |-> <<>>, role |-> "", shop |-> "", emp |-> <<>>,
          name |-> <<>>, rate |-> 0, sent |-> 0, year |-> 0, query |-> "",
          body |-> FALSE, token |-> ""]

\* loc[p]: the handler's local variables, and a record of what the request
\* has done so far: `revoked` and `regen` are the years for whose document a
\* sharing revocation, resp. a regeneration of the month tabs, was issued;
\* `saves` are the data files for which a save was started.  `age` and
\* `idle` are the times of the handler's copy of the session (now -
\* CreatedAt and now - LastUsed, in hours); `reaped` records that the
\* cleanup removed the session after the handler had read it; `stale` is
\* the document id that the request has evicted from the document index;
\* `year` is the year whose document the request is updating, `failed` that
\* a call to the external store has failed, `snap` the roster as it was when
\* the request left the critical section that changed it, `client` the
\* service that getOrCreateSpreadsheetService has returned (0: none).
NoLoc == [shop |-> NoShop, target |-> <<>>, doc |-> "", created |-> FALSE,
          fresh |-> FALSE, dirty |-> FALSE, ext |-> FALSE,
          revoked |-> {}, regen |-> {}, saves |-> {},
          age |-> 0, idle |-> 0, reaped |-> FALSE, stale |-> "",
          year |-> 0, failed |-> FALSE, snap |-> EmptyMap, client |-> 0]

\* go saveShopsData(); go func() { saveShopsData(); saveEmployeeShopsData() }()
ShopsFile == {"shops"}
BothFiles == {"shops", "index"}

NoResp == [code |-> 0, shops |-> {}, employees |-> {}, shop_id |-> "",
           created |-> FALSE]

Request(op, s, shop, emp, name, rate, year) ==
    [op |-> op, email |-> s.email, role |-> s.role, shop |-> shop, emp |-> emp,
     name |-> name, rate |-> rate, sent |-> rate, year |-> year, query |-> "",
     body |-> TRUE, token |-> ""]

(* ------------------------------------------------------------------ *)
(* The data files                                                       *)
(* ------------------------------------------------------------------ *)

\* shopsDataFile, employeeShopsFile, and the temporary file of each.
DataFiles == {"shops", "index"}
TempFile(f) == IF f = "shops" THEN "shops.tmp" ELSE "index.tmp"

\* What json.MarshalIndent reads: employerShops with the maps of each shop,
\* and employeeShops.
ShopsDocument ==
    [e \in DOMAIN employerShops |->
        [id \in DOMAIN employerShops[e] |->
            [ID |-> employerShops[e][id].ID, Name |-> employerShops[e][id].Name,
             Employees |-> Employees(employerShops[e][id]),
             Spreadsheets |-> Spreadsheets(employerShops[e][id])]]]

Document(f) == IF f = "shops" THEN ShopsDocument ELSE employeeShops

\* A JSON text is a sequence of pieces: the opening brace, the members, the
\* closing brace.  The empty text and the texts that lack a piece do not
\* parse.
Marshal(doc) == <<"{", doc, "}">>
Parses(text) == Len(text) = 3 /\ text[1] = "{" /\ text[3] = "}"
Unmarshal(text) == text[2]

\* disk.names: file name -> inode; disk.inodes: inode -> text.  A file that
\* is open stays an inode after its name has gone.  disk.failed: a call
\* on the file system has returned an error.
FileExists(f) == Has(disk.names, f)
FileText(f) == disk.inodes[disk.names[f]]

Init ==
    /\ employerShops = (UX :> ("s1" :> [ID |-> "s1", Name |-> <<"m">>, ref |-> 1]))
    /\ heap = (1 :> [Employees |-> (UA :> [Email |-> UA, Name |-> <<"n">>,
                                           HourlyRate |-> InitRate]),
                     Spreadsheets |-> EmptyMap])
    /\ employeeShops = (UA :> <<"s1">>)
    /\ sessions = EmptyMap
    /\ pc = [p \in Procs |-> "idle"]
    /\ req = [p \in Procs |-> NoReq]
    /\ loc = [p \in Procs |-> NoLoc]
    /\ resp = [p \in Procs |-> NoResp]
    /\ disk = [names |-> ("shops" :> 1 @@ "index" :> 2),
               inodes |-> (1 :> Marshal(ShopsDocument) @@ 2 :> Marshal(employeeShops)),
               failed |-> FALSE]
    /\ goroutines = <<>>
    /\ store = EmptyMap
    /\ serviceCache = [entries |-> EmptyMap, built |-> <<>>]
    /\ view = [cell |-> <<>>, hours |-> 0, done |-> FALSE, table |-> <<>>]

(* ------------------------------------------------------------------ *)
(* Steps shared by the handlers                                         *)
(* ------------------------------------------------------------------ *)

\* The handler of slot p returns: the response is written.
Reply(p, r, response) ==
    /\ pc' = [pc EXCEPT ![p] = "done"]
    /\ req' = [req EXCEPT ![p] = r]
    /\ resp' = [resp EXCEPT ![p] = response]

Status(code) == [NoResp EXCEPT !.code = code]

\* The handler of slot p goes on to step `next`.
Goto(p, r, next) ==
    /\ pc' = [pc EXCEPT ![p] = next]
    /\ req' = [req EXCEPT ![p] = r]
    /\ resp' = resp

\* The locals of slot p after a step; `dirty` records that the request has
\* changed the registry, `ext` that it has issued a changing call to the
\* external store.
Locals(p, l, ext) ==
    loc' = [loc EXCEPT ![p] = [l EXCEPT !.dirty = l.dirty \/ (Reg' # Reg),
                                        !.ext = l.ext \/ ext]]

\* handleGoogleCallback: the role is computed once, from the registry.
handleGoogleCallbackOf(identities) ==
    \E email \in identities :
        LET role == getUserRole(email) IN
        /\ role # "unauthorized"
        /\ sessions' = Put(sessions, SessionToken(email), [email |-> email, role |-> role])
        /\ UNCHANGED <<employerShops, heap, employeeShops, pc, req, loc, resp,
                       disk, goroutines, store, serviceCache, view>>

handleGoogleCallback == handleGoogleCallbackOf(Identities)

\* The client has read the response; the slot is free again.
Return(p) ==
    /\ pc[p] = "done"
    /\ pc' = [pc EXCEPT ![p] = "idle"]
    /\ req' = [req EXCEPT ![p] = NoReq]
    /\ loc' = [loc EXCEPT ![p] = NoLoc]
    /\ resp' = [resp EXCEPT ![p] = NoResp]
    /\ UNCHANGED <<employerShops, heap, employeeShops, sessions, disk, goroutines, store, serviceCache, view>>

(* ------------------------------------------------------------------ *)
(* handleShops                                                          *)
(* ------------------------------------------------------------------ *)

RegSame == UNCHANGED <<employerShops, heap, employeeShops>>

\* generateShopID(): 16 characters drawn from crypto/rand; nothing compares
\* the result with the ids in use.
generateShopID == ShopIds

NextRef == Cardinality(DOMAIN heap) + 1

ShopNameMissing(name) == TrimSpace(name) = <<>>

\* Variant: the name is stored as it was sent.
NewShop_untrimmed(id, name, ref) == [ID |-> id, Name |-> name, ref |-> ref]

NewShop(id, name, ref) == [ID |-> id, Name |-> TrimSpace(name), ref |-> ref]

NewShopMaps == [Employees |-> EmptyMap, Spreadsheets |-> EmptyMap]

\* The maps of the shop that (email, id) held are garbage once the entry is
\* overwritten and no handler holds a copy of that shop: nothing can read
\* them any more, and they are emptied here.
Collect(h, email, id) ==
    LET old == ShopOf(email, id).ref IN
    IF old \in DOMAIN h /\ \A q \in Procs : loc[q].shop.ref # old
    THEN [h EXCEPT ![old] = NewShopMaps]
    ELSE h

\* employerShops[email][id] = shop (the inner map is made when nil)
StoreShop(shops, email, id, shop) ==
    Put(shops, email, Put(IF Has(shops, email) THEN shops[email] ELSE EmptyMap, id, shop))

\* Variant: only the "unauthorized" role is turned away.
RoleForbids_employeeAllowed(role) == role = "unauthorized"

RoleForbids(role) == role # "employer"

\* GET /api/shops
handleShopsGet(p) ==
    /\ pc[p] = "idle"
    /\ \E t \in DOMAIN sessions :
        LET s == sessions[t]
            r == Request("shopsGet", s, "", <<>>, <<>>, 0, 0)
            shops == IF s.role = "employer" THEN ShopsOfEmployer(s.email)
                     ELSE IF s.role = "employee" THEN findShopsForEmployee(s.email)
                     ELSE {}
        IN  /\ RegSame
            /\ Reply(p, r, [Status(200) EXCEPT !.shops = shops])
            /\ Locals(p, NoLoc, FALSE)
    /\ UNCHANGED <<sessions, disk, goroutines, store, serviceCache, view>>

\* POST /api/shops
handleShopsPost(p) ==
    /\ pc[p] = "idle"
    /\ \E t \in DOMAIN sessions, name \in ShopNameInputs :
        LET s == sessions[t]
            r0 == Request("shopsPost", s, "", <<>>, <<>>, 0, 0)
            r == [r0 EXCEPT !.name = name]
        IN  \/ /\ RoleForbids(s.role)
               /\ RegSame
               /\ Reply(p, r0, Status(403))
               /\ Locals(p, NoLoc, FALSE)
            \/ /\ ~RoleForbids(s.role)
               /\ ShopNameMissing(name)
               /\ RegSame
               /\ Reply(p, r, Status(400))
               /\ Locals(p, NoLoc, FALSE)
            \/ /\ ~RoleForbids(s.role)
               /\ ~ShopNameMissing(name)
               /\ NextRef <= MaxShopObjects
               /\ \E id \in generateShopID :
                    /\ heap' = Put(Collect(heap, s.email, id), NextRef, NewShopMaps)
                    /\ employerShops' =
                          StoreShop(employerShops, s.email, id, NewShop(id, name, NextRef))
                    /\ employeeShops' = employeeShops
                    /\ Reply(p, [r EXCEPT !.shop = id], [Status(200) EXCEPT !.shop_id = id])
                    /\ Locals(p, [NoLoc EXCEPT !.saves = ShopsFile], FALSE)
    /\ UNCHANGED <<sessions, disk, goroutines, store, serviceCache, view>>

\* Variant: without a match the first element goes.
RemoveShopID_dropsFirst(list, id) ==
    LET at == {i \in DOMAIN list : list[i] = id} IN
    IF list = <<>> THEN list
    ELSE LET i == IF at = {} THEN 1 ELSE CHOOSE j \in at : \A k \in at : j <= k
         IN  SubSeq(list, 1, i - 1) \o SubSeq(list, i + 1, Len(list))

\* append(empShops[:i], empShops[i+1:]...) at the first i with empShops[i] = id
RemoveShopID(list, id) ==
    LET at == {i \in DOMAIN list : list[i] = id} IN
    IF at = {} THEN list
    ELSE LET i == CHOOSE j \in at : \A k \in at : j <= k
         IN  SubSeq(list, 1, i - 1) \o SubSeq(list, i + 1, Len(list))

\* The employeeShops critical section of the two removal paths.
RemoveFromIndex(index, email, id) ==
    IF Has(index, email) THEN Put(index, email, RemoveShopID(index[email], id))
    ELSE index

\* delete(shop.Employees, email) on the shop now stored under (employer, id)
RemoveFromRoster(h, shops, employer, id, email) ==
    IF Has(shops, employer) /\ Has(shops[employer], id)
    THEN LET ref == shops[employer][id].ref
         IN  [h EXCEPT ![ref].Employees = Delete(@, email)]
    ELSE h

\* DELETE /api/shops: the body is decoded as an employee removal.
handleShopsDelete(p) ==
    /\ pc[p] = "idle"
    /\ \E t \in DOMAIN sessions :
        LET s == sessions[t]
            r0 == Request("shopsDelete", s, "", <<>>, <<>>, 0, 0)
        IN  /\ RegSame
            /\ \/ \E query \in ShopIds :
                     \* the client's delete-shop call: no body to decode
                     /\ Reply(p, [r0 EXCEPT !.query = query, !.body = FALSE], Status(400))
                     /\ Locals(p, NoLoc, FALSE)
               \/ \E in \in RemoveInputs :
                     LET r == [r0 EXCEPT !.shop = in.shop, !.emp = in.emp] IN
                     \/ /\ in.shop = "" \/ in.emp = <<>>
                        /\ Reply(p, r, Status(400))
                        /\ Locals(p, NoLoc, FALSE)
                     \/ /\ in.shop # "" /\ in.emp # <<>>
                        /\ ~ShopExists(s.email, in.shop)
                        /\ Reply(p, r, Status(404))
                        /\ Locals(p, NoLoc, FALSE)
                     \/ /\ in.shop # "" /\ in.emp # <<>>
                        /\ ShopExists(s.email, in.shop)
                        /\ Goto(p, r, "sd_revoke")
                        /\ Locals(p, [NoLoc EXCEPT !.shop = ShopOf(s.email, in.shop)], FALSE)
    /\ UNCHANGED <<sessions, disk, goroutines, store, serviceCache, view>>

\* The revocations issued before the roster is changed.
ShopsDeleteRevoke(p) ==
    /\ pc[p] = "sd_revoke"
    /\ RegSame
    /\ \E svc \in BOOLEAN :
        LET years == IF svc THEN DOMAIN Spreadsheets(loc[p].shop) ELSE {} IN
        /\ Goto(p, req[p], "sd_roster")
        /\ Locals(p, [loc[p] EXCEPT !.revoked = years], years # {})
    /\ UNCHANGED <<sessions, disk, goroutines, store, serviceCache, view>>

ShopsDeleteRoster(p) ==
    /\ pc[p] = "sd_roster"
    /\ heap' = RemoveFromRoster(heap, employerShops, req[p].email, req[p].shop, req[p].emp)
    /\ UNCHANGED <<employerShops, employeeShops>>
    /\ Goto(p, req[p], "sd_index")
    /\ Locals(p, loc[p], FALSE)
    /\ UNCHANGED <<sessions, disk, goroutines, store, serviceCache, view>>

ShopsDeleteIndex(p) ==
    /\ pc[p] = "sd_index"
    /\ employeeShops' = RemoveFromIndex(employeeShops, req[p].emp, req[p].shop)
    /\ UNCHANGED <<employerShops, heap>>
    /\ Reply(p, req[p], Status(200))
    /\ Locals(p, [loc[p] EXCEPT !.saves = BothFiles], FALSE)
    /\ UNCHANGED <<sessions, disk, goroutines, store, serviceCache, view>>

(* ------------------------------------------------------------------ *)
(* handleEmployees                                                      *)
(* ------------------------------------------------------------------ *)

\* Variant: only a negative rate is replaced.
EffectiveRate_zeroKept(rate) == IF rate < 0 THEN DefaultRate ELSE rate

\* if req.HourlyRate <= 0 { req.HourlyRate = 30.0 }
EffectiveRate(rate) == IF rate <= 0 THEN DefaultRate ELSE rate

NewEmployee(email, name, rate) ==
    [Email |-> TrimSpace(email), Name |-> TrimSpace(name), HourlyRate |-> rate]

\* Variant: the id is appended without looking for it.
AddToIndex_noLookup(index, email, id) ==
    Put(index, email, Append(IF Has(index, email) THEN index[email] ELSE <<>>, id))

\* The employeeShops critical section of POST /api/employees.
AddToIndex(index, email, id) ==
    LET list == IF Has(index, email) THEN index[email] ELSE <<>> IN
    IF id \in Range(list) THEN Put(index, email, list)
    ELSE Put(index, email, Append(list, id))

\* GET /api/employees
handleEmployeesGet(p) ==
    /\ pc[p] = "idle"
    /\ \E t \in DOMAIN sessions, shop \in ShopIds \cup {""} :
        LET s == sessions[t]
            r0 == Request("employeesGet", s, "", <<>>, <<>>, 0, 0)
            r == [r0 EXCEPT !.shop = shop]
        IN  /\ RegSame
            /\ \/ /\ RoleForbids(s.role)
                  /\ Reply(p, r0, Status(403))
               \/ /\ ~RoleForbids(s.role)
                  /\ shop = ""
                  /\ Reply(p, r, Status(400))
               \/ /\ ~RoleForbids(s.role)
                  /\ shop # ""
                  /\ Reply(p, r, [Status(200) EXCEPT !.employees =
                        IF ShopExists(s.email, shop)
                        THEN LET m == Employees(ShopOf(s.email, shop))
                             IN  {m[e] : e \in DOMAIN m}
                        ELSE {}])
            /\ Locals(p, NoLoc, FALSE)
    /\ UNCHANGED <<sessions, disk, goroutines, store, serviceCache, view>>

\* POST /api/employees, up to the check that the shop exists
handleEmployeesPostOf(p, inputs) ==
    /\ pc[p] = "idle"
    /\ \E t \in DOMAIN sessions, shop \in ShopIds, in \in inputs :
        LET s == sessions[t]
            r0 == Request("employeesPost", s, "", <<>>, <<>>, 0, 0)
            bad == shop = "" \/ TrimSpace(in.emp) = <<>> \/ TrimSpace(in.name) = <<>>
            r == [r0 EXCEPT !.shop = shop, !.emp = in.emp, !.name = in.name,
                            !.sent = in.rate,
                            !.rate = IF bad THEN in.rate ELSE EffectiveRate(in.rate)]
        IN  /\ RegSame
            /\ \/ /\ RoleForbids(s.role)
                  /\ Reply(p, r0, Status(403))
               \/ /\ ~RoleForbids(s.role)
                  /\ bad
                  /\ Reply(p, r, Status(400))
               \/ /\ ~RoleForbids(s.role)
                  /\ ~bad
                  /\ ~ShopExists(s.email, shop)
                  /\ Reply(p, r, Status(404))
               \/ /\ ~RoleForbids(s.role)
                  /\ ~bad
                  /\ ShopExists(s.email, shop)
                  /\ Goto(p, r, "ea_roster")
            /\ Locals(p, NoLoc, FALSE)
    /\ UNCHANGED <<sessions, disk, goroutines, store, serviceCache, view>>

handleEmployeesPost(p) == handleEmployeesPostOf(p, AddInputs)

\* shop.Employees[email] = Employee{...} under employerShopsMutex
EmployeesPostRoster(p) ==
    /\ pc[p] = "ea_roster"
    /\ LET shop == ShopOf(req[p].email, req[p].shop) IN
        /\ heap' = [heap EXCEPT ![shop.ref].Employees =
                        Put(@, req[p].emp, NewEmployee(req[p].emp, req[p].name, req[p].rate))]
        /\ UNCHANGED <<employerShops, employeeShops>>
        /\ Goto(p, req[p], "ea_index")
        /\ Locals(p, [loc[p] EXCEPT !.shop = shop,
                                    !.snap = heap'[shop.ref].Employees], FALSE)
    /\ UNCHANGED <<sessions, disk, goroutines, store, serviceCache, view>>

\* the reverse index, under employeeShopsMutex
\* `started` is the pool of goroutines after the `go func()` of the step.
EmployeesPostIndexGo(p, started) ==
    /\ pc[p] = "ea_index"
    /\ employeeShops' = AddToIndex(employeeShops, req[p].emp, req[p].shop)
    /\ UNCHANGED <<employerShops, heap>>
    /\ Goto(p, req[p], "ea_share")
    /\ Locals(p, [loc[p] EXCEPT !.saves = BothFiles], FALSE)
    /\ goroutines' = started
    /\ UNCHANGED <<sessions, disk, store, serviceCache, view>>

\* The step without its goroutine: the save is recorded in loc[p].saves.
EmployeesPostIndex(p) == EmployeesPostIndexGo(p, goroutines)

\* share, regenerate and rewrite the management tab of every indexed year
EmployeesPostShare(p) ==
    /\ pc[p] = "ea_share"
    /\ RegSame
    /\ \E svc \in BOOLEAN :
        /\ Reply(p, req[p], Status(200))
        /\ Locals(p, loc[p], svc /\ DOMAIN Spreadsheets(loc[p].shop) # {})
    /\ UNCHANGED <<sessions, disk, goroutines, store, serviceCache, view>>

\* DELETE /api/employees, up to the check that the shop exists
handleEmployeesDelete(p) ==
    /\ pc[p] = "idle"
    /\ \E t \in DOMAIN sessions, in \in RemoveInputs :
        LET s == sessions[t]
            shop == in.shop
            r0 == Request("employeesDelete", s, "", <<>>, <<>>, 0, 0)
            r == [r0 EXCEPT !.shop = in.shop, !.emp = in.emp]
            bad == in.shop = "" \/ in.emp = <<>>
        IN  /\ RegSame
            /\ \/ /\ RoleForbids(s.role)
                  /\ Reply(p, r0, Status(403))
                  /\ Locals(p, NoLoc, FALSE)
               \/ /\ ~RoleForbids(s.role)
                  /\ bad
                  /\ Reply(p, r, Status(400))
                  /\ Locals(p, NoLoc, FALSE)
               \/ /\ ~RoleForbids(s.role)
                  /\ ~bad
                  /\ ~ShopExists(s.email, shop)
                  /\ Reply(p, r, Status(404))
                  /\ Locals(p, NoLoc, FALSE)
               \/ /\ ~RoleForbids(s.role)
                  /\ ~bad
                  /\ ShopExists(s.email, shop)
                  /\ Goto(p, r, "ed_roster")
                  /\ Locals(p, [NoLoc EXCEPT !.shop = ShopOf(s.email, shop)], FALSE)
    /\ UNCHANGED <<sessions, disk, goroutines, store, serviceCache, view>>

\* delete(shopData.Employees, email); shop = shopData
EmployeesDeleteRoster(p) ==
    /\ pc[p] = "ed_roster"
    /\ heap' = RemoveFromRoster(heap, employerShops, req[p].email, req[p].shop, req[p].emp)
    /\ UNCHANGED <<employerShops, employeeShops>>
    /\ Goto(p, req[p], "ed_revoke")
    /\ Locals(p, [loc[p] EXCEPT !.shop =
                     IF ShopExists(req[p].email, req[p].shop)
                     THEN ShopOf(req[p].email, req[p].shop) ELSE @,
                                !.snap =
                     IF ShopExists(req[p].email, req[p].shop)
                     THEN heap'[ShopOf(req[p].email, req[p].shop).ref].Employees
                     ELSE Employees(loc[p].shop)], FALSE)
    /\ UNCHANGED <<sessions, disk, goroutines, store, serviceCache, view>>

\* revoke, regenerate and rewrite the management tab of every indexed year
EmployeesDeleteRevoke(p) ==
    /\ pc[p] = "ed_revoke"
    /\ RegSame
    /\ \E svc \in BOOLEAN :
        LET years == IF svc THEN DOMAIN Spreadsheets(loc[p].shop) ELSE {} IN
        /\ Goto(p, req[p], "ed_index")
        /\ Locals(p, [loc[p] EXCEPT !.revoked = years, !.regen = years], years # {})
    /\ UNCHANGED <<sessions, disk, goroutines, store, serviceCache, view>>

EmployeesDeleteIndex(p) ==
    /\ pc[p] = "ed_index"
    /\ employeeShops' = RemoveFromIndex(employeeShops, req[p].emp, req[p].shop)
    /\ UNCHANGED <<employerShops, heap>>
    /\ Reply(p, req[p], Status(200))
    /\ Locals(p, [loc[p] EXCEPT !.saves = BothFiles], FALSE)
    /\ UNCHANGED <<sessions, disk, goroutines, store, serviceCache, view>>

(* ------------------------------------------------------------------ *)
(* handleSpreadsheet                                                    *)
(* ------------------------------------------------------------------ *)

\* Variant: the reverse index decides, not the roster.
EmployeeAccess_byIndex(id, email) ==
    {e \in DOMAIN employerShops :
        /\ Has(employerShops[e], id)
        /\ id \in Range(ShopIDsOf(email))}

\* The employers under which the loop over employerShops finds shop `id`
\* with `email` a key of its roster; map iteration order decides among them.
EmployeeAccess(id, email) ==
    {e \in DOMAIN employerShops :
        /\ Has(employerShops[e], id)
        /\ Has(Employees(ShopOf(e, id)), email)}

\* POST /api/spreadsheet, up to the access decision
handleSpreadsheet(p) ==
    /\ pc[p] = "idle"
    /\ \E t \in DOMAIN sessions, shop \in ShopIds \cup {""}, year \in Years :
        LET s == sessions[t]
            r == Request("spreadsheet", s, shop, <<>>, <<>>, 0, year)
        IN  /\ RegSame
            /\ \/ /\ shop = ""
                  /\ Reply(p, r, Status(400))
                  /\ Locals(p, NoLoc, FALSE)
               \/ /\ shop # ""
                  /\ s.role = "employer"
                  /\ ~ShopExists(s.email, shop)
                  /\ Reply(p, r, Status(404))
                  /\ Locals(p, NoLoc, FALSE)
               \/ /\ shop # ""
                  /\ s.role = "employer"
                  /\ ShopExists(s.email, shop)
                  /\ Goto(p, r, "ss_lookup")
                  /\ Locals(p, [NoLoc EXCEPT !.shop = ShopOf(s.email, shop),
                                             !.target = s.email], FALSE)
               \/ /\ shop # ""
                  /\ s.role # "employer"
                  /\ s.role # "employee" \/ EmployeeAccess(shop, s.email) = {}
                  /\ Reply(p, r, Status(403))
                  /\ Locals(p, NoLoc, FALSE)
               \/ /\ shop # ""
                  /\ s.role = "employee"
                  /\ \E e \in EmployeeAccess(shop, s.email) :
                        /\ Goto(p, r, "ss_lookup")
                        /\ Locals(p, [NoLoc EXCEPT !.shop = ShopOf(e, shop),
                                                   !.target = e], FALSE)
    /\ UNCHANGED <<sessions, disk, goroutines, store, serviceCache, view>>

\* getOrCreateSpreadsheetService, then GetSpreadsheetById for the indexed id
SpreadsheetLookup(p) ==
    /\ pc[p] = "ss_lookup"
    /\ RegSame
    /\ LET index == Spreadsheets(loc[p].shop) IN
        \E svc \in BOOLEAN, ok \in BOOLEAN :
           \/ /\ ~svc
              /\ Reply(p, req[p], Status(500))
              /\ Locals(p, loc[p], FALSE)
           \/ /\ svc /\ Has(index, req[p].year) /\ ok
              /\ Goto(p, req[p], "ss_reply")
              /\ Locals(p, [loc[p] EXCEPT !.doc = index[req[p].year]], FALSE)
           \/ /\ svc /\ Has(index, req[p].year) /\ ~ok
              /\ Goto(p, req[p], "ss_evict")
              /\ Locals(p, [loc[p] EXCEPT !.stale = index[req[p].year]], FALSE)
           \/ /\ svc /\ ~Has(index, req[p].year)
              /\ Goto(p, req[p], "ss_find")
              /\ Locals(p, loc[p], FALSE)
    /\ UNCHANGED <<sessions, disk, goroutines, store, serviceCache, view>>

\* Variant: the rejected id is left in the document index.
Evict_kept(index, year) == index

\* delete(shop.Spreadsheets, year)
Evict(index, year) == Delete(index, year)

\* delete(shop.Spreadsheets, year); employerShops[target][shopID] = shop
SpreadsheetEvict(p) ==
    /\ pc[p] = "ss_evict"
    /\ heap' = [heap EXCEPT ![loc[p].shop.ref].Spreadsheets = Evict(@, req[p].year)]
    /\ employerShops' = StoreShop(employerShops, loc[p].target, req[p].shop, loc[p].shop)
    /\ employeeShops' = employeeShops
    /\ Goto(p, req[p], "ss_find")
    /\ Locals(p, [loc[p] EXCEPT !.saves = @ \cup ShopsFile], FALSE)
    /\ UNCHANGED <<sessions, disk, goroutines, store, serviceCache, view>>

\* CreateWorkScheduleSpreadsheet: find by name, else create
SpreadsheetFind(p) ==
    /\ pc[p] = "ss_find"
    /\ RegSame
    /\ \/ /\ req[p].role # "employer"
          /\ Reply(p, req[p], Status(404))
          /\ Locals(p, loc[p], FALSE)
       \/ /\ req[p].role = "employer"
          /\ \E d \in DocIds :
                /\ Goto(p, req[p], "ss_record")
                /\ Locals(p, [loc[p] EXCEPT !.doc = d], FALSE)
       \/ /\ req[p].role = "employer"
          /\ \E d \in DocIds :
                /\ Goto(p, req[p], "ss_record")
                /\ Locals(p, [loc[p] EXCEPT !.doc = d, !.fresh = TRUE], TRUE)
       \/ /\ req[p].role = "employer"
          /\ Reply(p, req[p], Status(500))
          /\ Locals(p, loc[p], FALSE)
    /\ UNCHANGED <<sessions, disk, goroutines, store, serviceCache, view>>

\* shop.Spreadsheets[year] = id on the shop now stored under (employer, id)
SpreadsheetRecord(p) ==
    /\ pc[p] = "ss_record"
    /\ LET shop == ShopOf(loc[p].target, req[p].shop) IN
        /\ heap' = [heap EXCEPT ![shop.ref].Spreadsheets = Put(@, req[p].year, loc[p].doc)]
        /\ UNCHANGED <<employerShops, employeeShops>>
    /\ Goto(p, req[p], "ss_reply")
    /\ Locals(p, [loc[p] EXCEPT !.created = TRUE, !.saves = @ \cup ShopsFile], TRUE)
    /\ UNCHANGED <<sessions, disk, goroutines, store, serviceCache, view>>

\* the response (after the month tabs and shares of a created document)
SpreadsheetReply(p) ==
    /\ pc[p] = "ss_reply"
    /\ RegSame
    /\ Reply(p, req[p], [Status(200) EXCEPT !.created = loc[p].created])
    /\ Locals(p, loc[p], FALSE)
    /\ UNCHANGED <<sessions, disk, goroutines, store, serviceCache, view>>

(* ------------------------------------------------------------------ *)
(* handleScheduleData, handleUpdateSchedule                             *)
(* ------------------------------------------------------------------ *)

\* GET /api/schedule
handleScheduleData(p) ==
    /\ pc[p] = "idle"
    /\ \E t \in DOMAIN sessions, shop \in ShopIds \cup {""}, year \in Years,
          svc \in BOOLEAN :
        LET s == sessions[t]
            r == Request("scheduleGet", s, shop, <<>>, <<>>, 0, year)
            Serve(sh) ==
                IF ~Has(Spreadsheets(sh), year) THEN Reply(p, r, Status(404))
                ELSE IF ~svc THEN Reply(p, r, Status(500))
                ELSE LET m == Employees(sh)
                     IN  Reply(p, r, [Status(200) EXCEPT !.employees =
                                         {m[e] : e \in DOMAIN m}])
        IN  /\ RegSame
            /\ \/ /\ shop = ""
                  /\ Reply(p, r, Status(400))
               \/ /\ shop # ""
                  /\ s.role = "employer"
                  /\ ~ShopExists(s.email, shop)
                  /\ Reply(p, r, Status(404))
               \/ /\ shop # ""
                  /\ s.role = "employer"
                  /\ ShopExists(s.email, shop)
                  /\ Serve(ShopOf(s.email, shop))
               \/ /\ shop # ""
                  /\ s.role # "employer"
                  /\ EmployeeAccess(shop, s.email) = {}
                  /\ Reply(p, r, Status(403))
               \/ /\ shop # ""
                  /\ s.role # "employer"
                  /\ \E e \in EmployeeAccess(shop, s.email) : Serve(ShopOf(e, shop))
            /\ Locals(p, NoLoc, FALSE)
    /\ UNCHANGED <<sessions, disk, goroutines, store, serviceCache, view>>

\* POST /api/schedule/update
handleUpdateSchedule(p) ==
    /\ pc[p] = "idle"
    /\ \E t \in DOMAIN sessions, shop \in ShopIds \cup {""}, year \in Years,
          svc \in BOOLEAN :
        LET s == sessions[t]
            r0 == Request("scheduleUpdate", s, "", <<>>, <<>>, 0, 0)
            r == [r0 EXCEPT !.shop = shop, !.year = year]
        IN  /\ RegSame
            /\ \/ /\ RoleForbids(s.role)
                  /\ Reply(p, r0, Status(403))
                  /\ Locals(p, NoLoc, FALSE)
               \/ /\ ~RoleForbids(s.role)
                  /\ shop = ""
                  /\ Reply(p, r, Status(400))
                  /\ Locals(p, NoLoc, FALSE)
               \/ /\ ~RoleForbids(s.role)
                  /\ shop # ""
                  /\ \/ ~ShopExists(s.email, shop)
                     \/ /\ ShopExists(s.email, shop)
                        /\ ~Has(Spreadsheets(ShopOf(s.email, shop)), year)
                  /\ Reply(p, r, Status(404))
                  /\ Locals(p, NoLoc, FALSE)
               \/ /\ ~RoleForbids(s.role)
                  /\ shop # ""
                  /\ ShopExists(s.email, shop)
                  /\ Has(Spreadsheets(ShopOf(s.email, shop)), year)
                  /\ \/ /\ ~svc
                        /\ Reply(p, r, Status(500))
                        /\ Locals(p, NoLoc, FALSE)
                     \/ /\ svc
                        /\ Reply(p, r, Status(200))
                        /\ Locals(p, NoLoc, TRUE)
    /\ UNCHANGED <<sessions, disk, goroutines, store, serviceCache, view>>

(* ------------------------------------------------------------------ *)
(* The specification                                                    *)
(* ------------------------------------------------------------------ *)

Next ==
    \/ handleGoogleCallback
    \/ \E p \in Serial :
        \/ handleShopsGet(p)
        \/ handleShopsPost(p)
        \/ handleShopsDelete(p)
        \/ ShopsDeleteRevoke(p)
        \/ ShopsDeleteRoster(p)
        \/ ShopsDeleteIndex(p)
        \/ handleEmployeesGet(p)
        \/ handleEmployeesPost(p)
        \/ EmployeesPostRoster(p)
        \/ EmployeesPostIndex(p)
        \/ EmployeesPostShare(p)
        \/ handleEmployeesDelete(p)
        \/ EmployeesDeleteRoster(p)
        \/ EmployeesDeleteRevoke(p)
        \/ EmployeesDeleteIndex(p)
        \/ handleSpreadsheet(p)
        \/ SpreadsheetLookup(p)
        \/ SpreadsheetEvict(p)
        \/ SpreadsheetFind(p)
        \/ SpreadsheetRecord(p)
        \/ SpreadsheetReply(p)
        \/ handleScheduleData(p)
        \/ handleUpdateSchedule(p)
        \/ Return(p)

Spec == Init /\ [][Next]_vars

\* Two requests in flight at once, restricted to the handlers that change
\* rosters and the reverse index (net/http runs every request on a goroutine
\* of its own; the mutexes are the only synchronisation).
NextRace ==
    \/ handleGoogleCallback
    \/ \E p \in Procs :
        \/ handleShopsDelete(p)
        \/ ShopsDeleteRevoke(p)
        \/ ShopsDeleteRoster(p)
        \/ ShopsDeleteIndex(p)
        \/ handleEmployeesPost(p)
        \/ EmployeesPostRoster(p)
        \/ EmployeesPostIndex(p)
        \/ EmployeesPostShare(p)
        \/ handleEmployeesDelete(p)
        \/ EmployeesDeleteRoster(p)
        \/ EmployeesDeleteRevoke(p)
        \/ EmployeesDeleteIndex(p)
        \/ Return(p)

SpecRace == Init /\ [][NextRace]_vars

(* ------------------------------------------------------------------ *)
(* Registry consistency and atomicity of add/remove                     *)
(* ------------------------------------------------------------------ *)

IndexOf(email) == IF Has(employeeShops, email) THEN Range(employeeShops[email]) ELSE {}

\* Employee e is in the roster of a shop with id `id`.
InRoster(e, id) ==
    \E E \in DOMAIN employerShops :
        Has(employerShops[E], id) /\ Has(Employees(employerShops[E][id]), e)

\* Rosters and the reverse index agree.
Consistent == \A e \in Identities, id \in ShopIds : InRoster(e, id) <=> id \in IndexOf(e)

\* No add or remove request is between its first and its last step.
Quiescent == \A p \in Procs : pc[p] \in {"idle", "done"}

\* The request of slot p has changed the roster and has not yet reached the
\* critical section that changes the reverse index, and the two disagree
\* about the employee of the request.
Torn(p) == /\ pc[p] \in {"ea_index", "ed_revoke", "ed_index", "sd_index"}
           /\ loc[p].dirty
           /\ InRoster(req[p].emp, req[p].shop) # (req[p].shop \in IndexOf(req[p].emp))

\* A step that reads or writes the registry: every step but a client
\* reading a response and the login of an allow-listed identity (isEmployer
\* answers before the reverse index is read).
RegistryStep ==
    /\ ~ \E q \in Procs : pc[q] = "done" /\ pc'[q] = "idle"
    /\ \/ pc' # pc
       \/ \E t \in DOMAIN sessions' :
             /\ sessions'[t].role # "employer"
             /\ ~Has(sessions, t) \/ sessions' # sessions

\* C1: whenever no add/remove request is in progress, whatever the
\* interleaving of the concurrent add/remove requests before, an employee is
\* a key of a shop's roster if and only if the shop's id is in the
\* employee's reverse-index list.
C1_QuiescentConsistent == Quiescent => Consistent

\* C2: add and remove are atomic for concurrent callers: while a request has
\* changed the roster and not yet the reverse index, no other operation
\* (a login computing getUserRole, another add/remove) takes a step on the
\* registry; the only such step possible is the request's own next one.
C2_AddRemoveAtomic ==
    [][\A p \in Procs : Torn(p) /\ RegistryStep => pc'[p] # pc[p]]_vars

\* Witness of the race: both requests have returned, the roster holds the
\* employee and the reverse index does not hold the shop.
C1_Witness ==
    /\ Quiescent
    /\ \E p, q \in Procs :
         /\ p # q
         /\ pc[p] = "done" /\ pc[q] = "done"
         /\ resp[p].code = 200 /\ resp[q].code = 200
         /\ req[p].op = "employeesPost"
         /\ req[q].op \in {"employeesDelete", "shopsDelete"}
         /\ InRoster(req[p].emp, req[p].shop)
         /\ req[p].shop \notin IndexOf(req[p].emp)

(* ------------------------------------------------------------------ *)
(* Access decisions                                                     *)
(* ------------------------------------------------------------------ *)

\* Slot p starts a request in this step.
Starts(p) == pc[p] = "idle" /\ pc'[p] # "idle"

\* The request of slot p has changed nothing: neither the registry nor,
\* through a changing call, any document.
Untouched(p) == ~loc[p].dirty /\ ~loc[p].ext

\* C3: a session whose role is not employer that asks for the schedule or the
\* spreadsheet of shop id S while its identity is not a key of S's roster is
\* answered 403 at once and the registry stays as it is, whatever role the
\* session carries and whatever the reverse index says.
C3_RosterDecidesAccess ==
    [][\A p \in Procs :
          ( /\ Starts(p)
            /\ req'[p].op \in {"scheduleGet", "spreadsheet"}
            /\ req'[p].role # "employer"
            /\ req'[p].shop # ""
            /\ ~InRoster(req'[p].email, req'[p].shop) )
          => ( /\ pc'[p] = "done"
               /\ resp'[p].code = 403
               /\ Reg' = Reg )]_vars

\* A session that was stored with the role "employee" is refused for a shop
\* whose roster it has left.
C3_Witness ==
    \E p \in Procs :
        /\ pc[p] = "done"
        /\ req[p].op \in {"scheduleGet", "spreadsheet"}
        /\ req[p].role = "employee"
        /\ req[p].shop # ""
        /\ ~InRoster(req[p].email, req[p].shop)
        /\ resp[p].code = 403

EmployerOnlyOps == {"shopsPost", "employeesGet", "employeesPost", "employeesDelete",
                    "scheduleUpdate"}

\* C4: a request of a session whose role is not employer to POST /api/shops,
\* GET/POST/DELETE /api/employees or POST /api/schedule/update ends at once
\* with 403, and has changed neither the registry nor any document.
C4_EmployerOnly ==
    \A p \in Procs :
        (req[p].op \in EmployerOnlyOps /\ req[p].role # "employer")
        => (pc[p] = "done" /\ resp[p].code = 403 /\ Untouched(p))

C4_Witness ==
    \E p \in Procs :
        /\ pc[p] = "done"
        /\ req[p].op = "employeesPost"
        /\ req[p].role = "employee"
        /\ resp[p].code = 403

OwnedShopOps == {"employeesPost", "employeesDelete", "shopsDelete", "scheduleGet",
                 "scheduleUpdate", "spreadsheet"}

\* The body of the request passes the handler's validation.
WellFormed(r) ==
    /\ r.shop # ""
    /\ r.op = "employeesPost" => TrimSpace(r.emp) # <<>> /\ TrimSpace(r.name) # <<>>
    /\ r.op \in {"employeesDelete", "shopsDelete"} => r.emp # <<>>

\* C5: an employer's add, remove, schedule read, schedule update or
\* spreadsheet request that names a shop id not stored under that employer
\* (stored under another employer or under none) is answered 404 at once and
\* the registry stays as it is.
C5_OwnShopsOnly ==
    [][\A p \in Procs :
          ( /\ Starts(p)
            /\ req'[p].op \in OwnedShopOps
            /\ req'[p].role = "employer"
            /\ WellFormed(req'[p])
            /\ ~(Has(employerShops, req'[p].email)
                   /\ Has(employerShops[req'[p].email], req'[p].shop)) )
          => ( /\ pc'[p] = "done"
               /\ resp'[p].code = 404
               /\ Reg' = Reg )]_vars

\* An employer was answered 404 for a shop that exists under another one.
C5_Witness ==
    \E p \in Procs :
        /\ pc[p] = "done"
        /\ req[p].op = "employeesPost"
        /\ req[p].role = "employer"
        /\ resp[p].code = 404
        /\ \E o \in DOMAIN employerShops :
              o # req[p].email /\ Has(employerShops[o], req[p].shop)

(* ------------------------------------------------------------------ *)
(* Roles                                                                *)
(* ------------------------------------------------------------------ *)

\* The identity is on the configured allow-list (compared case-insensitively,
\* surrounding space ignored).
AllowListed(email) ==
    ToLower(TrimSpace(email)) \in {ToLower(TrimSpace(a)) : a \in getEmployerEmails}

C7_DeleteShopRemoves ==
    [][\A p \in Procs, E \in Identities, S \in ShopIds :
          ( /\ Starts(p)
            /\ req'[p].op = "shopsDelete"
            /\ ~req'[p].body
            /\ req'[p].role = "employer"
            /\ req'[p].email = E /\ req'[p].query = S
            /\ ShopExists(E, S) )
          => ( /\ resp'[p].code = 200
               /\ ~ShopExists(E, S)'
               /\ \A e \in Identities :
                     /\ S \notin IndexOf(e)'
                     /\ \A info \in findShopsForEmployee(e)' : info.ID # S
               /\ \A info \in ShopsOfEmployer(E)' : info.ID # S )]_vars

\* C8: creating a shop with a name that is empty after trimming is answered
\* 400 and the registry stays as it is; with any other name the request adds
\* exactly one shop, under the calling employer and the id it answers, whose
\* stored name is the trimmed name, whose roster and document index are
\* empty and newly made, and which is in the employer's listing; no other
\* entry of the registry changes.
C8_CreateShop ==
    [][\A p \in Procs, E \in Identities, name \in ShopNameInputs, id \in ShopIds \cup {""} :
          ( /\ Starts(p) /\ req'[p].op = "shopsPost" /\ req'[p].role = "employer"
            /\ req'[p].email = E /\ req'[p].name = name /\ resp'[p].shop_id = id )
          =>     IF TrimSpace(name) = <<>>
                 THEN resp'[p].code = 400 /\ Reg' = Reg
                 ELSE /\ pc'[p] = "done" /\ resp'[p].code = 200
                      /\ id \in ShopIds
                      /\ ShopExists(E, id)'
                      /\ ShopOf(E, id)'.ID = id
                      /\ ShopOf(E, id)'.Name = TrimSpace(name)
                      /\ ShopOf(E, id)'.ref \notin DOMAIN heap
                      /\ Employees(ShopOf(E, id))' = EmptyMap
                      /\ Spreadsheets(ShopOf(E, id))' = EmptyMap
                      /\ \E info \in ShopsOfEmployer(E)' :
                            /\ info.ID = id
                            /\ info.Name = TrimSpace(name)
                            /\ info.EmployeeCount = 0
                      /\ \A o \in DOMAIN employerShops, i \in ShopIds :
                            (<<o, i>> # <<E, id>> /\ Has(employerShops[o], i))
                            => /\ ShopOf(o, i)' = ShopOf(o, i)
                               /\ Employees(ShopOf(o, i))' = Employees(ShopOf(o, i))
                               /\ Spreadsheets(ShopOf(o, i))' = Spreadsheets(ShopOf(o, i))
                      /\ \A o \in DOMAIN employerShops', i \in ShopIds :
                            ShopExists(o, i)' => (ShopExists(o, i) \/ <<o, i>> = <<E, id>>)
                      /\ employeeShops' = employeeShops]_vars

\* A shop was made from a name with surrounding space, by an employer who
\* had no shop before.
C8_Witness ==
    \E p \in Procs :
        /\ pc[p] = "done"
        /\ req[p].op = "shopsPost"
        /\ resp[p].code = 200
        /\ req[p].name # TrimSpace(req[p].name)
        /\ ShopOf(req[p].email, resp[p].shop_id).Name = TrimSpace(req[p].name)
        /\ req[p].email = UY

\* No shop id is stored under two employers.
UniqueShopIds ==
    \A o1, o2 \in DOMAIN employerShops :
        o1 # o2 => DOMAIN employerShops[o1] \cap DOMAIN employerShops[o2] = {}

\* C9: every shop id is under exactly one employer, and creating a shop
\* never takes an id in use: it replaces and alters no existing shop.
C9_ShopIdsUnique ==
    [][ /\ UniqueShopIds'
        /\ \A p \in Procs :
             (Starts(p) /\ req'[p].op = "shopsPost" /\ resp'[p].code = 200)
             => ~ \E o \in DOMAIN employerShops :
                     Has(employerShops[o], resp'[p].shop_id) ]_vars

(* ------------------------------------------------------------------ *)
(* Removing an employee                                                 *)
(* ------------------------------------------------------------------ *)

RemoveOps == {"employeesDelete", "shopsDelete"}

\* C10: removing an employee is idempotent.  For a shop of the calling
\* employer, the roster step leaves the employee out of the roster and
\* changes nothing when the employee was not in it; the index step leaves the
\* shop id out of the employee's list and changes nothing when the id was not
\* in it; and the request is answered 200 whether or not the employee was
\* there.  A second removal with the same (shop, email), like the removal of
\* an employee who never was in the roster, therefore ends in the state the
\* first one left, with a success.
C10_RemoveIdempotent ==
    [][\A p \in Procs, E \in Identities, S \in ShopIds, e \in Identities :
          ( /\ pc'[p] # pc[p]
            /\ req'[p].op \in RemoveOps /\ req'[p].role = "employer"
            /\ req'[p].email = E /\ req'[p].shop = S /\ req'[p].emp = e
            /\ ShopExists(E, S) )
          => /\ pc[p] = "idle" => pc'[p] \in {"ed_roster", "sd_revoke"}
             /\ pc[p] \in {"ed_roster", "sd_roster"} =>
                   /\ ~Has(Employees(ShopOf(E, S)), e)'
                   /\ ~Has(Employees(ShopOf(E, S)), e) => Reg' = Reg
             /\ pc[p] \in {"ed_index", "sd_index"} =>
                   /\ S \notin IndexOf(e)'
                   /\ S \notin IndexOf(e) => Reg' = Reg
                   /\ \A o \in Identities \ {e} : IndexOf(o)' = IndexOf(o)
                   /\ pc'[p] = "done" /\ resp'[p].code = 200
             /\ pc'[p] = "done" =>
                   /\ resp'[p].code = 200
                   /\ ~Has(Employees(ShopOf(E, S)), e)'
                   /\ S \notin IndexOf(e)' ]_vars

\* A removal has succeeded without changing anything: the employee was
\* already out of the roster and the id out of the list.
C10_Witness ==
    \E p \in Procs :
        /\ pc[p] = "done"
        /\ req[p].op = "employeesDelete"
        /\ resp[p].code = 200
        /\ ~loc[p].dirty
        /\ ShopExists(req[p].email, req[p].shop)
        /\ Has(employeeShops, req[p].emp)

(* ------------------------------------------------------------------ *)
(* Adding an employee                                                   *)
(* ------------------------------------------------------------------ *)

\* Add requests for an employee who is not in the initial roster, with two
\* names and with rates on both sides of zero.
UpsertInputs ==
    {[emp |-> UB, name |-> n, rate |-> r] : n \in {<<"n", " ">>, <<"k">>}, r \in RateInputs}

handleEmployeesPostUpsert(p) == handleEmployeesPostOf(p, UpsertInputs)

handleGoogleCallbackEmployer == handleGoogleCallbackOf({UX})

\* Two add requests in flight at once, and nothing else.
NextAdd ==
    \/ handleGoogleCallbackEmployer
    \/ \E p \in Procs :
        \/ handleEmployeesPostUpsert(p)
        \/ EmployeesPostRoster(p)
        \/ EmployeesPostIndex(p)
        \/ EmployeesPostShare(p)
        \/ Return(p)

SpecAdd == Init /\ [][NextAdd]_vars

\* The roster entry of e in the shop stored under (E, S); <<>> when absent.
RosterEntry(E, S, e) ==
    IF Has(Employees(ShopOf(E, S)), e) THEN <<Employees(ShopOf(E, S))[e]>> ELSE <<>>

\* How often id occurs in the reverse-index list of e.
Occurrences(e, id) ==
    Cardinality({i \in DOMAIN ShopIDsOf(e) : ShopIDsOf(e)[i] = id})

\* C11: adding is an upsert.  Whatever the interleaving of add requests, no
\* reverse-index list ever holds a shop id twice; a roster entry only changes
\* in the roster step of an add request for that (shop, email) and then
\* carries the trimmed name and the rate of that one request; and when an add
\* request has answered, the roster holds the entry of that email and the
\* shop id occurs exactly once in the employee's list.
C11_AddIsUpsert ==
    [][ /\ \A e \in Identities, id \in ShopIds : Occurrences(e, id)' <= 1
        /\ \A E \in Identities, S \in ShopIds, e \in Identities :
             RosterEntry(E, S, e)' # RosterEntry(E, S, e)
             => \E p \in Procs :
                   /\ pc[p] = "ea_roster" /\ pc'[p] = "ea_index"
                   /\ req[p].email = E /\ req[p].shop = S /\ req[p].emp = e
                   /\ RosterEntry(E, S, e)' =
                         << [Email |-> TrimSpace(e), Name |-> TrimSpace(req[p].name),
                             HourlyRate |-> req[p].rate] >>
        /\ \A p \in Procs, E \in Identities, S \in ShopIds, e \in Identities :
             ( /\ pc'[p] = "done" /\ resp'[p].code = 200
               /\ req'[p].op = "employeesPost"
               /\ req'[p].email = E /\ req'[p].shop = S /\ req'[p].emp = e )
             => /\ RosterEntry(E, S, e)' # <<>>
                /\ Occurrences(e, S)' = 1 ]_vars

\* Two add requests for the same (shop, email) with different names ran at
\* the same time and have both answered; the roster holds one entry and the
\* list holds the shop id once.
C11_Witness ==
    \E p, q \in Procs :
        /\ p # q
        /\ pc[p] = "done" /\ pc[q] = "done"
        /\ resp[p].code = 200 /\ resp[q].code = 200
        /\ req[p].op = "employeesPost" /\ req[q].op = "employeesPost"
        /\ req[p].shop = req[q].shop /\ req[p].emp = req[q].emp
        /\ req[p].name # req[q].name
        /\ RosterEntry(req[p].email, req[p].shop, req[p].emp) # <<>>
        /\ ShopIDsOf(req[p].emp) = <<req[p].shop>>

\* C12: every roster entry written by an add request has a strictly
\* positive hourly rate: the fallback 30.0 when the rate sent was zero or
\* negative, the rate sent when it was positive.
C12_PositiveRate ==
    [][\A p \in Procs :
          (pc[p] = "ea_roster" /\ pc'[p] = "ea_index")
          => LET stored == RosterEntry(req[p].email, req[p].shop, req[p].emp)' IN
             /\ stored # <<>>
             /\ stored[1].HourlyRate > 0
             /\ req[p].sent <= 0 => stored[1].HourlyRate = DefaultRate
             /\ req[p].sent > 0 => stored[1].HourlyRate = req[p].sent ]_vars

\* An entry has just been written from a request that sent the rate zero.
C12_Witness ==
    \E p \in Procs :
        /\ pc[p] = "ea_index"
        /\ req[p].sent = 0
        /\ RosterEntry(req[p].email, req[p].shop, req[p].emp) # <<>>
        /\ RosterEntry(req[p].email, req[p].shop, req[p].emp)[1].HourlyRate = DefaultRate

(* ------------------------------------------------------------------ *)
(* The cascade of a removal                                             *)
(* ------------------------------------------------------------------ *)

\* C13: every removal that answers 200, through DELETE /api/employees or
\* through DELETE /api/shops with a body, has by then taken the shop id out
\* of the employee's reverse-index list, issued a sharing revocation on the
\* document of every year in the shop's document index, and issued a
\* regeneration of the month tabs of every such document.
C13_RemovalCascades ==
    \A p \in Procs :
        (pc[p] = "done" /\ req[p].op \in RemoveOps /\ resp[p].code = 200)
        => LET years == DOMAIN Spreadsheets(ShopOf(req[p].email, req[p].shop)) IN
           /\ req[p].shop \notin IndexOf(req[p].emp)
           /\ loc[p].revoked = years
           /\ loc[p].regen = years

(* ------------------------------------------------------------------ *)
(* The session store in time                                            *)
(* ------------------------------------------------------------------ *)

\* Under SpecSession a session is [email, role, age, idle]: age is the time
\* since CreatedAt, idle the time since LastUsed, in hours.
sessionTimeout == 24
maxIdle == 2

\* Hours that pass in one step of the clock; times beyond the limits are
\* kept as "one more than the limit".
TickHours == 2
Tokens == {"t1", "t2"}
SessionIdentities == {UX}

Later(hours, limit) ==
    IF hours + TickHours > limit THEN limit + 1 ELSE hours + TickHours

Expired(s) == s.age > sessionTimeout \/ s.idle > maxIdle

InFlight(p) == pc[p] = "u_touch"

\* generateRandomString(32): a token that no session and no request holds.
FreshTokens == {t \in Tokens : ~Has(sessions, t) /\ \A p \in Procs : req[p].token # t}

\* Variant: a session is stored whatever the role.
Admitted_any(role) == TRUE

\* if role == "unauthorized" { ... 403; return }
Admitted(role) == role # "unauthorized"

\* handleGoogleCallback, with the times of the session it stores.
handleGoogleCallbackSessionOf(identities) ==
    \E email \in identities, t \in FreshTokens :
        LET role == getUserRole(email) IN
        /\ Admitted(role)
        /\ sessions' = Put(sessions, t, [email |-> email, role |-> role,
                                         age |-> 0, idle |-> 0])
        /\ UNCHANGED <<employerShops, heap, employeeShops, pc, req, loc, resp,
                       disk, goroutines, store, serviceCache, view>>

handleGoogleCallbackSession == handleGoogleCallbackSessionOf(SessionIdentities)

\* The handlers' prologue, first part: the lookup under the read lock.
handleUser(p) ==
    /\ pc[p] = "idle"
    /\ \E t \in Tokens :
        IF Has(sessions, t)
        THEN /\ Goto(p, [NoReq EXCEPT !.op = "user", !.token = t,
                                      !.email = sessions[t].email,
                                      !.role = sessions[t].role], "u_touch")
             /\ loc' = [loc EXCEPT ![p] = [NoLoc EXCEPT !.age = sessions[t].age,
                                                        !.idle = sessions[t].idle]]
        ELSE /\ Reply(p, [NoReq EXCEPT !.op = "user", !.token = t], Status(401))
             /\ loc' = loc
    /\ UNCHANGED <<employerShops, heap, employeeShops, sessions, disk, goroutines, store, serviceCache, view>>

\* The prologue, second part: under the write lock the copy, with LastUsed
\* set to now, is stored under the cookie's token.
handleUserTouch(p) ==
    /\ pc[p] = "u_touch"
    /\ sessions' = Put(sessions, req[p].token,
                       [email |-> req[p].email, role |-> req[p].role,
                        age |-> loc[p].age, idle |-> 0])
    /\ Reply(p, req[p], Status(200))
    /\ loc' = [loc EXCEPT ![p].idle = 0]
    /\ UNCHANGED <<employerShops, heap, employeeShops, disk, goroutines, store, serviceCache, view>>

\* handleLogout: one critical section; the answer is always 200.
handleLogout(p) ==
    /\ pc[p] = "idle"
    /\ \E t \in Tokens :
        /\ sessions' = Delete(sessions, t)
        /\ serviceCache' = IF Has(sessions, t)
                           THEN [serviceCache EXCEPT !.entries = Delete(@, sessions[t].email)]
                           ELSE serviceCache
        /\ Reply(p, [NoReq EXCEPT !.op = "logout", !.token = t], Status(200))
    /\ UNCHANGED <<employerShops, heap, employeeShops, loc, disk, goroutines, store, view>>

Unexpired == {t \in DOMAIN sessions : ~Expired(sessions[t])}

\* cleanupExpiredSessions: one critical section over the whole store.
cleanupExpiredSessions ==
    /\ Unexpired # DOMAIN sessions
    /\ sessions' = [t \in Unexpired |-> sessions[t]]
    /\ loc' = [p \in Procs |->
                 IF InFlight(p) /\ Has(sessions, req[p].token)
                               /\ req[p].token \notin Unexpired
                 THEN [loc[p] EXCEPT !.reaped = TRUE] ELSE loc[p]]
    /\ UNCHANGED <<employerShops, heap, employeeShops, pc, req, resp,
                   disk, goroutines, store, serviceCache, view>>

\* Time passes, for the sessions and for the copies the handlers hold.
Tick ==
    /\ \E t \in DOMAIN sessions : sessions[t].age <= sessionTimeout
    /\ sessions' = [t \in DOMAIN sessions |->
                      [sessions[t] EXCEPT !.age = Later(@, sessionTimeout),
                                          !.idle = Later(@, maxIdle)]]
    /\ loc' = [p \in Procs |->
                 IF InFlight(p)
                 THEN [loc[p] EXCEPT !.age = Later(@, sessionTimeout),
                                     !.idle = Later(@, maxIdle)]
                 ELSE loc[p]]
    /\ UNCHANGED <<employerShops, heap, employeeShops, pc, req, resp,
                   disk, goroutines, store, serviceCache, view>>

NextSession ==
    \/ handleGoogleCallbackSession
    \/ cleanupExpiredSessions
    \/ Tick
    \/ \E p \in Procs :
        \/ handleUser(p)
        \/ handleUserTouch(p)
        \/ handleLogout(p)
        \/ Return(p)

SpecSession == Init /\ [][NextSession]_vars

\* C14: while the answer of a completed logout for a token stands, the
\* session store holds no record under that token, whatever requests were in
\* flight with the token when the logout ran.
C14_LogoutIsFinal ==
    \A p \in Procs :
        (pc[p] = "done" /\ req[p].op = "logout") => ~Has(sessions, req[p].token)

\* The session of token t as the cleanup leaves it.
Kept(t) == IF Has(sessions, t) /\ ~Expired(sessions[t]) THEN <<sessions[t]>> ELSE <<>>
Stored(t) == IF Has(sessions, t) THEN <<sessions[t]>> ELSE <<>>

\* C15: a run of the cleanup removes exactly the sessions older than 24h or
\* idle for more than 2h, and a session that a run removed is not back in
\* the store when a request that had read it before the run has answered.
C15_ReaperExact ==
    [][/\ (pc' = pc /\ DOMAIN sessions' # DOMAIN sessions
             /\ DOMAIN sessions' \subseteq DOMAIN sessions)
            => \A t \in Tokens : Stored(t)' = Kept(t)
       /\ \A p \in Procs :
            (pc'[p] = "done" /\ loc'[p].reaped) => ~Has(sessions', req'[p].token)
      ]_vars

(* ------------------------------------------------------------------ *)
(* Saving the data files                                                *)
(* ------------------------------------------------------------------ *)

\* Goroutines that may save at one time.
MaxSavers == 2

\* A goroutine that saves the files of `files` one after the other:
\* go saveShopsData(), or go func() { saveShopsData(); saveEmployeeShopsData() }().
Saver(files) ==
    [fn |-> "save", at |-> "marshal", todo |-> files, data |-> <<>>, fd |-> 0,
     err |-> FALSE]

FreshInode ==
    CHOOSE n \in 1..(Cardinality(DOMAIN disk.inodes) + 1) :
        /\ n \notin DOMAIN disk.inodes
        /\ \A m \in 1..(n - 1) : m \in DOMAIN disk.inodes

\* An inode lives while a name or an open file refers to it.
Sweep(names, inodes, pool) ==
    LET live == Range(names) \cup {pool[i].fd : i \in DOMAIN pool} IN
    [n \in (DOMAIN inodes) \cap live |-> inodes[n]]

Without(pool, i) == SubSeq(pool, 1, i - 1) \o SubSeq(pool, i + 1, Len(pool))

SameMemory ==
    UNCHANGED <<employerShops, heap, employeeShops, sessions, pc, req, loc, resp, store, serviceCache, view>>

\* json.MarshalIndent under the read lock of the map.
saveMarshal(i) ==
    /\ i \in DOMAIN goroutines
    /\ goroutines[i].at = "marshal"
    /\ goroutines' = [goroutines EXCEPT ![i].at = "open",
                                        ![i].data = Marshal(Document(Head(goroutines[i].todo)))]
    /\ disk' = disk
    /\ SameMemory

\* ioutil.WriteFile, the open: O_WRONLY|O_CREATE|O_TRUNC on the temporary
\* file, whose name is the same for every save of the file.
saveOpen(i) ==
    /\ i \in DOMAIN goroutines
    /\ goroutines[i].at = "open"
    /\ LET tmp == TempFile(Head(goroutines[i].todo))
           inode == IF FileExists(tmp) THEN disk.names[tmp] ELSE FreshInode
       IN /\ disk' = [disk EXCEPT !.names = Put(disk.names, tmp, inode),
                                  !.inodes = Put(disk.inodes, inode, <<>>)]
          /\ goroutines' = [goroutines EXCEPT ![i].at = "write", ![i].fd = inode]
    /\ SameMemory

\* ioutil.WriteFile, the write and the close.
saveWrite(i) ==
    /\ i \in DOMAIN goroutines
    /\ goroutines[i].at = "write"
    /\ goroutines' = [goroutines EXCEPT ![i].at = "rename", ![i].fd = 0]
    /\ disk' = [disk EXCEPT !.inodes =
                   Sweep(disk.names, [@ EXCEPT ![goroutines[i].fd] = goroutines[i].data],
                         goroutines')]
    /\ SameMemory

\* os.Rename; when it fails the temporary file is removed and the error is
\* returned to a caller that drops it.  Then the next file, or the end.
saveRename(i) ==
    /\ i \in DOMAIN goroutines
    /\ goroutines[i].at = "rename"
    /\ LET f == Head(goroutines[i].todo)
           tmp == TempFile(f)
           rest == Tail(goroutines[i].todo)
           pool == IF rest # <<>>
                   THEN [goroutines EXCEPT ![i].at = "marshal", ![i].todo = rest,
                                           ![i].data = <<>>]
                   ELSE IF goroutines[i].fn = "init"
                   THEN [goroutines EXCEPT ![i].at = "serve", ![i].todo = rest,
                                           ![i].data = <<>>]
                   ELSE Without(goroutines, i)
           names == IF FileExists(tmp)
                    THEN Put(Delete(disk.names, tmp), f, disk.names[tmp])
                    ELSE disk.names
       IN /\ goroutines' = pool
          /\ disk' = [names |-> names, inodes |-> Sweep(names, disk.inodes, pool),
                      failed |-> disk.failed \/ ~FileExists(tmp)]
    /\ SameMemory

DurableInputs == {[emp |-> UB, name |-> n, rate |-> InitRate] : n \in {<<"k">>, <<"n">>}}

handleEmployeesPostDurable(p) == handleEmployeesPostOf(p, DurableInputs)

\* go func() { saveShopsData(); saveEmployeeShopsData() }()
EmployeesPostIndexSave(p) ==
    /\ Len(goroutines) < MaxSavers
    /\ EmployeesPostIndexGo(p, Append(goroutines, Saver(<<"shops", "index">>)))

NextDurable ==
    \/ handleGoogleCallbackEmployer
    \/ \E p \in Serial :
        \/ handleEmployeesPostDurable(p)
        \/ EmployeesPostRoster(p)
        \/ EmployeesPostIndexSave(p)
        \/ EmployeesPostShare(p)
        \/ Return(p)
    \/ \E i \in 1..MaxSavers :
        \/ saveMarshal(i)
        \/ saveOpen(i)
        \/ saveWrite(i)
        \/ saveRename(i)

SpecDurable == Init /\ [][NextDurable]_vars

\* C16: at every instant each data file is absent or holds the whole
\* serialisation of a registry state, also while several saves of the file
\* run at once.
C16_NoPartialFile ==
    \A f \in DataFiles : FileExists(f) => Parses(FileText(f))

StartShopsDocs ==
    {[e \in {UX} |-> [id \in {"s1"} |->
        [ID |-> "s1", Name |-> <<"m">>, Employees |-> roster, Spreadsheets |-> EmptyMap]]] :
     roster \in {EmptyMap, (UA :> [Email |-> UA, Name |-> <<"n">>, HourlyRate |-> InitRate])}}
StartIndexDocs == {EmptyMap, (UA :> <<"s1">>)}
CutShort(docs) == {<<"{", d>> : d \in docs}
StartFiles(docs) ==
    {[there |-> FALSE, text |-> <<>>]} \cup
    {[there |-> TRUE, text |-> t] :
        t \in {<<>>} \cup CutShort(docs) \cup {Marshal(d) : d \in docs}}

DiskOf(shops, index) ==
    [names |-> [f \in {g \in DataFiles : (IF g = "shops" THEN shops ELSE index).there}
                  |-> IF f = "shops" THEN 1 ELSE 2],
     inodes |-> [n \in {m \in {1, 2} : (IF m = 1 THEN shops ELSE index).there}
                  |-> IF n = 1 THEN shops.text ELSE index.text],
     failed |-> FALSE]

\* The main goroutine in func init().
InitGoroutine ==
    [fn |-> "init", at |-> "loadShops", todo |-> <<>>, data |-> <<>>, fd |-> 0,
     err |-> FALSE]

InitStartup ==
    /\ employerShops = EmptyMap
    /\ heap = <<>>
    /\ employeeShops = EmptyMap
    /\ sessions = EmptyMap
    /\ pc = [p \in Procs |-> "idle"]
    /\ req = [p \in Procs |-> NoReq]
    /\ loc = [p \in Procs |-> NoLoc]
    /\ resp = [p \in Procs |-> NoResp]
    /\ \E shops \in StartFiles(StartShopsDocs), index \in StartFiles(StartIndexDocs) :
        disk = DiskOf(shops, index)
    /\ goroutines = <<InitGoroutine>>
    /\ store = EmptyMap
    /\ serviceCache = [entries |-> EmptyMap, built |-> <<>>]
    /\ view = [cell |-> <<>>, hours |-> 0, done |-> FALSE, table |-> <<>>]

\* os.Stat says the file is missing, or ReadFile returns no bytes.
NothingToLoad(f) == ~FileExists(f) \/ FileText(f) = <<>>

\* json.Unmarshal into employerShops: every shop gets maps of its own.
ShopKeys(doc) == UNION {{<<e, id>> : id \in DOMAIN doc[e]} : e \in DOMAIN doc}

KeyOrder(doc) ==
    CHOOSE f \in [1..Cardinality(ShopKeys(doc)) -> ShopKeys(doc)] :
        \A a, b \in DOMAIN f : a # b => f[a] # f[b]

LoadedShops(doc) ==
    [e \in DOMAIN doc |-> [id \in DOMAIN doc[e] |->
        [ID |-> doc[e][id].ID, Name |-> doc[e][id].Name,
         ref |-> CHOOSE n \in DOMAIN KeyOrder(doc) : KeyOrder(doc)[n] = <<e, id>>]]]

LoadedHeap(doc) ==
    [n \in DOMAIN KeyOrder(doc) |->
        [Employees |-> doc[KeyOrder(doc)[n][1]][KeyOrder(doc)[n][2]].Employees,
         Spreadsheets |-> doc[KeyOrder(doc)[n][1]][KeyOrder(doc)[n][2]].Spreadsheets]]

SameRequests == UNCHANGED <<sessions, pc, req, loc, resp, store, serviceCache, view>>

\* loadShopsData, and what init does with its error: it logs it.
loadShopsData(i) ==
    /\ i \in DOMAIN goroutines
    /\ goroutines[i].at = "loadShops"
    /\ IF NothingToLoad("shops")
       THEN /\ goroutines' = [goroutines EXCEPT ![i].at = "loadIndex"]
            /\ UNCHANGED <<employerShops, heap>>
       ELSE IF Parses(FileText("shops"))
       THEN /\ goroutines' = [goroutines EXCEPT ![i].at = "loadIndex"]
            /\ employerShops' = LoadedShops(Unmarshal(FileText("shops")))
            /\ heap' = LoadedHeap(Unmarshal(FileText("shops")))
       ELSE /\ goroutines' = [goroutines EXCEPT ![i].at = "loadIndex", ![i].err = TRUE]
            /\ UNCHANGED <<employerShops, heap>>
    /\ UNCHANGED <<employeeShops, disk>>
    /\ SameRequests

\* loadEmployeeShopsData, likewise.
loadEmployeeShopsData(i) ==
    /\ i \in DOMAIN goroutines
    /\ goroutines[i].at = "loadIndex"
    /\ IF NothingToLoad("index")
       THEN /\ goroutines' = [goroutines EXCEPT ![i].at = "default"]
            /\ employeeShops' = employeeShops
       ELSE IF Parses(FileText("index"))
       THEN /\ goroutines' = [goroutines EXCEPT ![i].at = "default"]
            /\ employeeShops' = Unmarshal(FileText("index"))
       ELSE /\ goroutines' = [goroutines EXCEPT ![i].at = "default", ![i].err = TRUE]
            /\ employeeShops' = employeeShops
    /\ UNCHANGED <<employerShops, heap, disk>>
    /\ SameRequests

\* "Initialize with default data if no data exists": with no employer in
\* the map the default shop is stored and both files are saved, in init's
\* own goroutine; then the server starts.
initDefault(i) ==
    /\ i \in DOMAIN goroutines
    /\ goroutines[i].at = "default"
    /\ IF DOMAIN employerShops = {}
       THEN \E id \in generateShopID :
            /\ employerShops' = (UX :> (id :> [ID |-> id, Name |-> <<"m">>, ref |-> 1]))
            /\ heap' = <<[Employees |-> (UA :> [Email |-> UA, Name |-> <<"n">>,
                                                 HourlyRate |-> InitRate]),
                          Spreadsheets |-> EmptyMap]>>
            /\ employeeShops' = Put(employeeShops, UA, <<id>>)
            /\ goroutines' = [goroutines EXCEPT ![i].at = "marshal",
                                                ![i].todo = <<"shops", "index">>]
       ELSE /\ goroutines' = [goroutines EXCEPT ![i].at = "serve"]
            /\ UNCHANGED <<employerShops, heap, employeeShops>>
    /\ disk' = disk
    /\ SameRequests

NextStartup ==
    \E i \in {1} :
        \/ loadShopsData(i)
        \/ loadEmployeeShopsData(i)
        \/ initDefault(i)
        \/ saveMarshal(i)
        \/ saveOpen(i)
        \/ saveWrite(i)
        \/ saveRename(i)

SpecStartup == InitStartup /\ [][NextStartup]_vars

\* C17: once a load has met a text that does not parse, startup goes no
\* further: it does not reach serving, fills no registry and leaves the data
\* files as they are; a missing or empty file is no error and leaves the map
\* it would fill empty.
C17_MalformedIsFatal ==
    [][\A i \in DOMAIN goroutines :
          goroutines[i].fn = "init" =>
            /\ goroutines[i].err =>
                 /\ goroutines'[i].at # "serve"
                 /\ disk' = disk
                 /\ Reg' = Reg
            /\ (goroutines[i].at = "loadShops" /\ NothingToLoad("shops")) =>
                 /\ ~goroutines'[i].err
                 /\ employerShops' = EmptyMap
            /\ (goroutines[i].at = "loadIndex" /\ NothingToLoad("index")) =>
                 /\ goroutines'[i].err = goroutines[i].err
                 /\ employeeShops' = EmptyMap
      ]_vars

(* ------------------------------------------------------------------ *)
(* Saves and documents                                                  *)
(* ------------------------------------------------------------------ *)

\* C18: a request that has changed the registry has, when it answers,
\* started a save of both data files.
C18_SavesBothFiles ==
    \A p \in Procs :
        (pc[p] = "done" /\ loc[p].dirty) => loc[p].saves = BothFiles

\* The spreadsheet handler alone, one request at a time.
NextDocs ==
    \/ handleGoogleCallback
    \/ \E p \in Serial :
        \/ handleSpreadsheet(p)
        \/ SpreadsheetLookup(p)
        \/ SpreadsheetEvict(p)
        \/ SpreadsheetFind(p)
        \/ SpreadsheetRecord(p)
        \/ SpreadsheetReply(p)
        \/ Return(p)

SpecDocs == Init /\ [][NextDocs]_vars

\* The document index of the shop a spreadsheet request works on.
IndexedDoc(p) ==
    LET index == Spreadsheets(ShopOf(loc[p].target, req[p].shop)) IN
    IF Has(index, req[p].year) THEN index[req[p].year] ELSE ""

Answered(p, code) ==
    pc[p] = "done" /\ req[p].op = "spreadsheet" /\ resp[p].code = code

\* C19: a spreadsheet request that got its document from find-or-create
\* (the handler's `created`) has recorded the id in the shop's document
\* index, and it reports created=true only if the document was newly
\* created, not if it was found by its name.
C19_FoundIsNotCreated ==
    \A p \in Procs :
        Answered(p, 200) =>
            /\ loc[p].created => IndexedDoc(p) = loc[p].doc
            /\ resp[p].created => loc[p].fresh

\* C20: an employer's spreadsheet request whose indexed id the store
\* rejects evicts the id, goes through find-or-create once, and then either
\* answers 200 with created=true and the replacement recorded in the index,
\* or answers 500 with the index holding no document for the year.
C20_StaleIdReplaced ==
    [][\A p \in Procs :
          /\ (pc[p] = "ss_evict" /\ pc'[p] # pc[p]) =>
                /\ pc'[p] = "ss_find"
                /\ loc'[p].stale # ""
                /\ IndexedDoc(p)' = ""
          /\ (pc'[p] = "ss_find" /\ pc[p] # pc'[p]) => pc[p] \in {"ss_lookup", "ss_evict"}
          /\ (pc[p] = "ss_find" /\ pc'[p] # pc[p]) => pc'[p] \in {"ss_record", "done"}
          /\ (Answered(p, 200)' /\ loc'[p].stale # "") =>
                /\ resp'[p].created
                /\ loc'[p].doc # ""
                /\ IndexedDoc(p)' = loc'[p].doc
          /\ (loc'[p].stale # "" /\ req'[p].role = "employer" /\ pc'[p] = "done") =>
                /\ resp'[p].code \in {200, 500}
                /\ resp'[p].code = 500 => IndexedDoc(p)' = ""
      ]_vars

\* An employer's request has evicted a stale id and answered 200 with
\* created=true and the replacement recorded in the index.
C20_Witness ==
    \E p \in Procs :
        /\ Answered(p, 200)
        /\ req[p].role = "employer"
        /\ loc[p].stale # ""
        /\ resp[p].created
        /\ IndexedDoc(p) = loc[p].doc

(* ------------------------------------------------------------------ *)
(* The month tabs                                                       *)
(* ------------------------------------------------------------------ *)

\* A cell of a tab is a sequence of strings: <<>> is the empty cell, a fixed
\* text is one string, a name is its characters.  A grid is a sequence of
\* rows, a row a sequence of cells.

UpperChar(c) ==
    CASE c = "n" -> "N"
      [] c = "k" -> "K"
      [] c = "m" -> "M"
      [] OTHER -> c

\* strings.ToUpper
ToUpper(s) == [i \in 1..Len(s) |-> UpperChar(s[i])]

\* The months by number, as getMonthNumber gives them for the twelve names.
Months == 1..12

IsLeap(y) == (y % 4 = 0 /\ y % 100 # 0) \/ y % 400 = 0

\* time.Date(year, monthNum+1, 0, ...).Day(): the last day of the month.
getDaysInMonth(m, y) ==
    IF m \in {1, 3, 5, 7, 8, 10, 12} THEN 31
    ELSE IF m \in {4, 6, 9, 11} THEN 30
    ELSE IF IsLeap(y) THEN 29 ELSE 28

\* date.Weekday(), 0 for Sunday.
Weekday(y, m, d) ==
    LET t == <<0, 3, 2, 5, 0, 3, 5, 1, 4, 6, 2, 4>>
        yy == IF m < 3 THEN y - 1 ELSE y
    IN  (yy + (yy \div 4) - (yy \div 100) + (yy \div 400) + t[m] + d) % 7

getPolishDayName(w) == <<"Niedziela", "Poniedzialek", "Wtorek", "Sroda", "Czwartek",
                         "Piatek", "Sobota">>[w + 1]

\* The orders in which a `for ... range employees` may visit the map.
Orders(employees) ==
    {o \in [1..Cardinality(DOMAIN employees) -> DOMAIN employees] :
        \A i, j \in DOMAIN o : i # j => o[i] # o[j]}

Blank == <<>>
Cells(n, cell) == [i \in 1..n |-> cell]

\* Variant: the spacing row always has the five cells of the empty roster.
SpacerRow_five(n) == Cells(5, Blank)

\* "Add exactly one empty row for spacing"
SpacerRow(n) == IF n = 0 THEN Cells(5, Blank) ELSE Cells(n + 2, Blank)

\* scheduleData of CreateMonthlySchedule; `order` is the order in which the
\* header loop visits the roster.
ScheduleGrid(m, employees, order, year) ==
    LET n == Cardinality(DOMAIN employees)
        names == IF n = 0
                 THEN <<<<"PRACOWNIK 1">>, <<"PRACOWNIK 2">>, <<"PRACOWNIK 3">>>>
                 ELSE [i \in 1..n |-> ToUpper(employees[order[i]].Name)]
        w == Len(names)
        header == <<<<"DZIEN TYGODNIA">>>> \o names \o <<<<"TAGI">>>>
        dayRow(d) == <<<<getPolishDayName(Weekday(year, m, d)), ToString(d)>>>>
                         \o Cells(w, Blank) \o <<Blank>>
        hoursRow == <<<<"SUMA GODZIN">>>> \o Cells(w, <<"0,00">>) \o <<Blank>>
        wagesRow == <<<<"WYPLATA">>>> \o Cells(w, <<"0,00">>) \o <<Blank>>
    IN  <<header>> \o [d \in 1..getDaysInMonth(m, year) |-> dayRow(d)]
                   \o <<SpacerRow(n), hoursRow, wagesRow>>

Larger(a, b) == IF a > b THEN a ELSE b

\* Spreadsheets.Values.Update on a range that starts at A1: the cells for
\* which the request carries a value are set (to empty for ""), the other
\* cells of the tab keep what they hold.
WriteValues(old, data) ==
    [r \in 1..Larger(Len(old), Len(data)) |->
        LET o == IF r <= Len(old) THEN old[r] ELSE <<>>
            d == IF r <= Len(data) THEN data[r] ELSE <<>>
        IN  [c \in 1..Larger(Len(o), Len(d)) |-> IF c <= Len(d) THEN d[c] ELSE o[c]]]

\* fileName := fmt.Sprintf("GrafikZabka-%s-%d", shopName, year)
FileName(shopName, year) == <<"GrafikZabka-">> \o shopName \o <<"-", ToString(year)>>

\* A document of the external store.  `origin` records the shop and the year
\* of the request that created it.
NoDocument ==
    [name |-> <<>>, origin |-> <<>>, grants |-> {}, tabs |-> EmptyMap, management |-> <<>>]

TabOf(doc, m) == IF Has(store[doc].tabs, m) THEN store[doc].tabs[m] ELSE <<>>

\* CreateMonthlySchedule on a document of the store.
CreateMonthlySchedule(doc, m, employees, order, year) ==
    store' = [store EXCEPT ![doc].tabs =
                 Put(@, m, WriteValues(TabOf(doc, m), ScheduleGrid(m, employees, order, year)))]

GridYears == {2024, 2025}
GridRosters ==
    {EmptyMap,
     (UA :> [Email |-> UA, Name |-> <<"n">>, HourlyRate |-> InitRate]),
     (UA :> [Email |-> UA, Name |-> <<"n">>, HourlyRate |-> InitRate]) @@
     (UB :> [Email |-> UB, Name |-> <<"k">>, HourlyRate |-> DefaultRate])}

\* One shop with a roster and one new document for a year.
InitGrid ==
    /\ employerShops = (UX :> ("s1" :> [ID |-> "s1", Name |-> <<"m">>, ref |-> 1]))
    /\ \E roster \in GridRosters, year \in GridYears :
        heap = <<[Employees |-> roster, Spreadsheets |-> (year :> "d1")]>>
    /\ employeeShops = [e \in DOMAIN heap[1].Employees |-> <<"s1">>]
    /\ sessions = EmptyMap
    /\ pc = [p \in Procs |-> "idle"]
    /\ req = [p \in Procs |-> NoReq]
    /\ loc = [p \in Procs |-> NoLoc]
    /\ resp = [p \in Procs |-> NoResp]
    /\ disk = [names |-> EmptyMap, inodes |-> EmptyMap, failed |-> FALSE]
    /\ goroutines = <<>>
    /\ store = ("d1" :> NoDocument)
    /\ serviceCache = [entries |-> EmptyMap, built |-> <<>>]
    /\ view = [cell |-> <<>>, hours |-> 0, done |-> FALSE, table |-> <<>>]

\* RegenerateAllMonthlySchedules, month by month.
RegenerateNextMonth ==
    /\ \E doc \in DOMAIN store, m \in Months, year \in GridYears,
          order \in Orders(heap[1].Employees) :
        /\ Has(heap[1].Spreadsheets, year)
        /\ DOMAIN store[doc].tabs = 1..(m - 1)
        /\ CreateMonthlySchedule(doc, m, heap[1].Employees, order, year)
    /\ UNCHANGED <<employerShops, heap, employeeShops, sessions, pc, req, loc, resp,
                   disk, goroutines, serviceCache, view>>

SpecGrid == InitGrid /\ [][RegenerateNextMonth]_vars

\* C21: every month tab written for a roster and a year has the days of the
\* month plus four rows, every row has roster size + 2 cells (5 for the
\* empty roster), and the employee cells of the two summary rows hold "0,00".
C21_GridShape ==
    \A doc \in DOMAIN store : \A m \in DOMAIN store[doc].tabs :
        LET grid == store[doc].tabs[m]
            n == Cardinality(DOMAIN heap[1].Employees)
            w == IF n = 0 THEN 5 ELSE n + 2
            year == CHOOSE y \in DOMAIN heap[1].Spreadsheets : TRUE
            days == getDaysInMonth(m, year)
        IN  /\ Len(grid) = days + 4
            /\ \A r \in DOMAIN grid : Len(grid[r]) = w
            /\ grid[1][1] = <<"DZIEN TYGODNIA">>
            /\ \A d \in 1..days : grid[d + 1][1][2] = ToString(d)
            /\ grid[days + 2] = Cells(w, Blank)
            /\ grid[days + 3][1] = <<"SUMA GODZIN">>
            /\ grid[days + 4][1] = <<"WYPLATA">>
            /\ \A c \in 2..(w - 1) :
                  grid[days + 3][c] = <<"0,00">> /\ grid[days + 4][c] = <<"0,00">>

\* All twelve tabs of a leap year are written for a roster of two, and
\* February has its 29 days.
C21_Witness ==
    \E doc \in DOMAIN store :
        /\ DOMAIN store[doc].tabs = Months
        /\ Cardinality(DOMAIN heap[1].Employees) = 2
        /\ Len(store[doc].tabs[2]) = 29 + 4

(* ------------------------------------------------------------------ *)
(* The documents of a shop in the external store                        *)
(* ------------------------------------------------------------------ *)

Highest(S) == IF S = {} THEN 0 ELSE CHOOSE x \in S : \A y \in S : y <= x

\* resp.Values of Spreadsheets.Values.Get on a range that covers the tab:
\* the empty cells at the end of a row and the empty rows at the end of the
\* tab are left out.
ReadValues(grid) ==
    LET rows == [r \in DOMAIN grid |->
                    SubSeq(grid[r], 1, Highest({c \in DOMAIN grid[r] : grid[r][c] # Blank}))]
    IN  SubSeq(rows, 1, Highest({r \in DOMAIN rows : rows[r] # <<>>}))

\* Permissions.Create with role reader; a grant that exists is no error.
ShareSpreadsheetWithEmployee(st, doc, email) ==
    [st EXCEPT ![doc].grants = @ \cup {email}]

\* Permissions.List, then Permissions.Delete of the grant of that address.
RevokeSpreadsheetAccessFromEmployee(st, doc, email) ==
    [st EXCEPT ![doc].grants = @ \ {email}]

\* RegenerateAllMonthlySchedules: the months are written in order, and the
\* first error ends the loop; `written` is the set of months written,
\* `orders` the order of the roster in the header of each.
RegenerateAllMonthlySchedules(st, doc, employees, orders, year, written) ==
    [st EXCEPT ![doc].tabs =
        [m \in (DOMAIN @) \cup written |->
            IF m \in written
            THEN WriteValues(IF Has(@, m) THEN @[m] ELSE <<>>,
                             ScheduleGrid(m, employees, orders[m], year))
            ELSE @[m]]]

\* managementData of initializeManagementSheetUnsafe
ManagementRows(name, employees, order) ==
    << <<<<"ZARZADZANIE PRACOWNIKAMI - GrafikZabka-">> \o name>>,
       <<Blank>>,
       <<<<"Email">>, <<"Imie i Nazwisko">>, <<"Stawka godzinowa (PLN)">>>> >>
    \o [i \in 1..Cardinality(DOMAIN employees) |->
           <<employees[order[i]].Email, employees[order[i]].Name,
             <<ToString(employees[order[i]].HourlyRate)>>>>]

\* initializeManagementSheet: the rows go to MANAGEMENT!A1:C20.
initializeManagementSheet(st, doc, shop, order) ==
    [st EXCEPT ![doc].management =
        WriteValues(@, ManagementRows(shop.Name, Employees(shop), order))]

\* The outcomes of a call to the external store: TRUE is success.
Reliable == {TRUE}
Unreliable == BOOLEAN

\* POST /api/employees after the registry: the service, then for a year of
\* the document index the share; with every year done, the response.
EmployeesPostShareOf(p, outcomes) ==
    /\ pc[p] = "ea_share"
    /\ RegSame
    /\ LET index == Spreadsheets(loc[p].shop)
           todo == DOMAIN index \ loc[p].regen
       IN  \/ /\ todo = {}
              /\ Reply(p, req[p], Status(200))
              /\ Locals(p, loc[p], FALSE)
              /\ store' = store
           \/ /\ todo # {} /\ loc[p].regen = {} /\ FALSE \in outcomes
              /\ Reply(p, req[p], Status(200))
              /\ Locals(p, [loc[p] EXCEPT !.failed = TRUE], FALSE)
              /\ store' = store
           \/ \E year \in todo, ok \in outcomes :
              /\ ok => Has(store, index[year])
              /\ store' = IF ok THEN ShareSpreadsheetWithEmployee(store, index[year], req[p].emp)
                          ELSE store
              /\ Goto(p, req[p], "ea_regen")
              /\ Locals(p, [loc[p] EXCEPT !.doc = index[year], !.year = year,
                                          !.failed = @ \/ ~ok], ok)
    /\ UNCHANGED <<sessions, disk, goroutines, serviceCache, view>>

\* DELETE /api/employees after the roster: the service, then for a year of
\* the document index the revocation; with every year done, the index.
EmployeesDeleteRevokeOf(p, outcomes) ==
    /\ pc[p] = "ed_revoke"
    /\ RegSame
    /\ LET index == Spreadsheets(loc[p].shop)
           todo == DOMAIN index \ loc[p].regen
       IN  \/ /\ todo = {}
              /\ Goto(p, req[p], "ed_index")
              /\ Locals(p, loc[p], FALSE)
              /\ store' = store
           \/ /\ todo # {} /\ loc[p].regen = {} /\ FALSE \in outcomes
              /\ Goto(p, req[p], "ed_index")
              /\ Locals(p, [loc[p] EXCEPT !.failed = TRUE], FALSE)
              /\ store' = store
           \/ \E year \in todo, ok \in outcomes :
              /\ ok => Has(store, index[year])
              /\ store' = IF ok
                          THEN RevokeSpreadsheetAccessFromEmployee(store, index[year], req[p].emp)
                          ELSE store
              /\ Goto(p, req[p], "ed_regen")
              /\ Locals(p, [loc[p] EXCEPT !.doc = index[year], !.year = year,
                                          !.revoked = IF ok THEN @ \cup {year} ELSE @,
                                          !.failed = @ \/ ~ok], ok)
    /\ UNCHANGED <<sessions, disk, goroutines, serviceCache, view>>

\* The months at which a failing regeneration meets its error: at once, or
\* with half of the year written.
FailingMonths == {1, 7}

\* RegenerateAllMonthlySchedules(ctx, spreadsheetID, shop.Employees, year):
\* the roster is the map of the shop as it is when the call is made.
EmployeesRegenerateOf(p, at, next, outcomes) ==
    /\ pc[p] = at
    /\ RegSame
    /\ \E ok \in outcomes, failing \in FailingMonths :
        LET employees == Employees(loc[p].shop)
            written == IF ok THEN Months ELSE 1..(failing - 1)
        IN  /\ ok => failing = 1
            /\ \E orders \in [written -> Orders(employees)] :
                  store' = RegenerateAllMonthlySchedules(store, loc[p].doc, employees,
                                                         orders, loc[p].year, written)
            /\ Goto(p, req[p], next)
            /\ Locals(p, [loc[p] EXCEPT !.failed = @ \/ ~ok], written # {})
    /\ UNCHANGED <<sessions, disk, goroutines, serviceCache, view>>

\* Variant: when the write of the management tab fails, the request takes
\* its employee off the roster again.
EmployeesManagementOf_undo(p, at, next, outcomes) ==
    /\ pc[p] = at
    /\ \E ok \in outcomes :
        LET shop == ShopOf(req[p].email, req[p].shop) IN
        /\ heap' = IF ok THEN heap
                   ELSE [heap EXCEPT ![shop.ref].Employees = Delete(@, req[p].emp)]
        /\ UNCHANGED <<employerShops, employeeShops>>
        /\ \E order \in Orders(Employees(shop)) :
              store' = IF ok THEN initializeManagementSheet(store, loc[p].doc, shop, order)
                       ELSE store
        /\ Goto(p, req[p], next)
        /\ Locals(p, [loc[p] EXCEPT !.regen = @ \cup {loc[p].year},
                                    !.failed = @ \/ ~ok], ok)
    /\ UNCHANGED <<sessions, disk, goroutines, serviceCache, view>>

\* initializeManagementSheet(ctx, spreadsheetID, employer, shopID): the
\* shop is read from employerShops when the call is made.
EmployeesManagementOf(p, at, next, outcomes) ==
    /\ pc[p] = at
    /\ RegSame
    /\ \E ok \in outcomes :
        LET shop == ShopOf(req[p].email, req[p].shop) IN
        /\ \E order \in Orders(Employees(shop)) :
              store' = IF ok THEN initializeManagementSheet(store, loc[p].doc, shop, order)
                       ELSE store
        /\ Goto(p, req[p], next)
        /\ Locals(p, [loc[p] EXCEPT !.regen = @ \cup {loc[p].year},
                                    !.failed = @ \/ ~ok], ok)
    /\ UNCHANGED <<sessions, disk, goroutines, serviceCache, view>>

SheetInputs == {[emp |-> UA, name |-> <<"n">>, rate |-> InitRate]}

handleEmployeesPostSheets(p) == handleEmployeesPostOf(p, SheetInputs)

\* Shop s1 of x with nobody on its roster and the document of 2025 as
\* handleSpreadsheet leaves a new one: the management tab and the twelve
\* month tabs written for the empty roster, no grant.
InitSheets ==
    /\ employerShops = (UX :> ("s1" :> [ID |-> "s1", Name |-> <<"m">>, ref |-> 1]))
    /\ heap = <<[Employees |-> EmptyMap, Spreadsheets |-> (2025 :> "d1")]>>
    /\ employeeShops = EmptyMap
    /\ sessions = EmptyMap
    /\ pc = [p \in Procs |-> "idle"]
    /\ req = [p \in Procs |-> NoReq]
    /\ loc = [p \in Procs |-> NoLoc]
    /\ resp = [p \in Procs |-> NoResp]
    /\ disk = [names |-> ("shops" :> 1 @@ "index" :> 2),
               inodes |-> (1 :> Marshal(ShopsDocument) @@ 2 :> Marshal(employeeShops)),
               failed |-> FALSE]
    /\ goroutines = <<>>
    /\ store = ("d1" :> [name |-> FileName(<<"m">>, 2025), origin |-> <<"s1", 2025>>,
                         grants |-> {},
                         tabs |-> [m \in Months |-> ScheduleGrid(m, EmptyMap, <<>>, 2025)],
                         management |-> ManagementRows(<<"m">>, EmptyMap, <<>>)])
    /\ serviceCache = [entries |-> EmptyMap, built |-> <<>>]
    /\ view = [cell |-> <<>>, hours |-> 0, done |-> FALSE, table |-> <<>>]

\* Additions and removals of one employee, two requests at a time, every
\* call to the external store succeeding.
NextSheets ==
    \/ handleGoogleCallbackEmployer
    \/ \E p \in Procs :
        \/ handleEmployeesPostSheets(p)
        \/ EmployeesPostRoster(p)
        \/ EmployeesPostIndex(p)
        \/ EmployeesPostShareOf(p, Reliable)
        \/ EmployeesRegenerateOf(p, "ea_regen", "ea_mgmt", Reliable)
        \/ EmployeesManagementOf(p, "ea_mgmt", "ea_share", Reliable)
        \/ handleEmployeesDelete(p)
        \/ EmployeesDeleteRoster(p)
        \/ EmployeesDeleteRevokeOf(p, Reliable)
        \/ EmployeesRegenerateOf(p, "ed_regen", "ed_mgmt", Reliable)
        \/ EmployeesManagementOf(p, "ed_mgmt", "ed_revoke", Reliable)
        \/ EmployeesDeleteIndex(p)
        \/ Return(p)

SpecSheets == InitSheets /\ [][NextSheets]_vars


\* C22: when an addition regenerates the month tabs of a document whose
\* twelve tabs have the layout of the empty roster, and the roster then
\* holds the added employee alone, every tab read afterwards has the header
\* [day-of-week label, NAME, tags] and no row wider than these three cells.
C22_PlaceholdersReplaced ==
    [][\A p \in Procs :
          (/\ pc[p] = "ea_regen" /\ pc'[p] = "ea_mgmt"
           /\ DOMAIN Employees(loc[p].shop) = {req[p].emp}
           /\ \A m \in Months :
                 store[loc[p].doc].tabs[m] = ScheduleGrid(m, EmptyMap, <<>>, loc[p].year))
          => \A m \in Months :
                LET rows == ReadValues(store'[loc[p].doc].tabs[m]) IN
                /\ rows[1] = <<<<"DZIEN TYGODNIA">>, ToUpper(req[p].name), <<"TAGI">>>>
                /\ \A r \in DOMAIN rows : Len(rows[r]) <= 3]_vars

\* The addresses that the management tab of a document lists, and the
\* number of its rows below the three heading rows.
ManagementListed(doc) ==
    LET rows == ReadValues(store[doc].management)
    IN  {rows[r][1] : r \in 4..Len(rows)}
ManagementCount(doc) == Len(ReadValues(store[doc].management)) - 3

\* C23: with no addition or removal in progress, the management tab of
\* every indexed document of a shop lists the shop's roster: one row for
\* each employee on it and no other row.
C23_ManagementListsRoster ==
    Quiescent =>
        \A e \in DOMAIN employerShops : \A id \in DOMAIN employerShops[e] :
            LET shop == employerShops[e][id]
                index == Spreadsheets(shop)
            IN  \A year \in DOMAIN index :
                  /\ ManagementListed(index[year]) = DOMAIN Employees(shop)
                  /\ ManagementCount(index[year]) = Cardinality(DOMAIN Employees(shop))

\* C24: a step that calls the external store changes nothing in the
\* registry (it is outside the critical sections), and the roster that an
\* addition or a removal sends to the store, in the month tabs and in the
\* management tab, is the roster as it was when the request left its
\* critical section.
C24_SnapshotOutsideLock ==
    [][\A p \in Procs :
          /\ store' # store => Reg' = Reg
          /\ (pc[p] \in {"ea_regen", "ed_regen"} /\ pc'[p] # pc[p])
             => \E orders \in [Months -> Orders(loc[p].snap)] :
                   store' = RegenerateAllMonthlySchedules(store, loc[p].doc, loc[p].snap,
                                                          orders, loc[p].year, Months)
          /\ (pc[p] \in {"ea_mgmt", "ed_mgmt"} /\ pc'[p] # pc[p])
             => \E order \in Orders(loc[p].snap) :
                   store'[loc[p].doc].management =
                       WriteValues(store[loc[p].doc].management,
                                   ManagementRows(loc[p].shop.Name, loc[p].snap, order))]_vars

\* C34: with no addition or removal in progress, the header of every month
\* tab of every indexed document of a shop, as it is read, is the header
\* that CreateMonthlySchedule writes for the roster the shop now has.
C34_TabsFollowRoster ==
    Quiescent =>
        \A e \in DOMAIN employerShops : \A id \in DOMAIN employerShops[e] :
            LET shop == employerShops[e][id]
                index == Spreadsheets(shop)
            IN  \A year \in DOMAIN index : \A m \in Months :
                  \E order \in Orders(Employees(shop)) :
                      ReadValues(TabOf(index[year], m))[1] =
                          ScheduleGrid(m, Employees(shop), order, year)[1]

(* ------------------------------------------------------------------ *)
(* getOrCreateSpreadsheetService                                        *)
(* ------------------------------------------------------------------ *)

\* A client is the number of its construction; serviceCache.built[c] is
\* the email for which client c was made.  A session's token is nil ("")
\* or a credential.
TokenInputs == {"", "t1"}

\* Variant: the second look at the cache, under the write lock, is left out.
Cached_never(email) == FALSE

\* service, exists := serviceCache[userEmail]; exists && service.initialized
Cached(email) == Has(serviceCache.entries, email)

\* The read-locked look at the cache.  (The hit also stamps LastUsed on a
\* session of the email; sessions carry no time here.)
getOrCreateSpreadsheetService(p) ==
    /\ pc[p] = "idle"
    /\ RegSame
    /\ \E t \in DOMAIN sessions, token \in TokenInputs :
        LET s == sessions[t]
            r == [Request("service", s, "", <<>>, <<>>, 0, 0) EXCEPT !.token = token]
        IN  \/ /\ Has(serviceCache.entries, s.email)
               /\ Reply(p, r, NoResp)
               /\ Locals(p, [NoLoc EXCEPT !.client = serviceCache.entries[s.email]], FALSE)
            \/ /\ ~Has(serviceCache.entries, s.email)
               /\ Goto(p, r, "gs_lock")
               /\ Locals(p, NoLoc, FALSE)
    /\ UNCHANGED <<sessions, disk, goroutines, store, serviceCache, view>>

\* From serviceCacheMutex.Lock() to the deferred Unlock: the second look,
\* NewSpreadsheetService, InitializeServices, serviceCache[userEmail] = service.
ServiceConstruct(p) ==
    /\ pc[p] = "gs_lock"
    /\ RegSame
    /\ \/ /\ Cached(req[p].email)
          /\ Locals(p, [loc[p] EXCEPT !.client = serviceCache.entries[req[p].email]], FALSE)
          /\ serviceCache' = serviceCache
       \/ /\ ~Cached(req[p].email)
          /\ req[p].token = ""
          /\ Locals(p, [loc[p] EXCEPT !.failed = TRUE], FALSE)
          /\ serviceCache' = serviceCache
       \/ /\ ~Cached(req[p].email)
          /\ req[p].token # ""
          /\ LET c == Len(serviceCache.built) + 1 IN
                /\ serviceCache' = [entries |-> Put(serviceCache.entries, req[p].email, c),
                                    built |-> Append(serviceCache.built, req[p].email)]
                /\ Locals(p, [loc[p] EXCEPT !.client = c], FALSE)
    /\ Reply(p, req[p], NoResp)
    /\ UNCHANGED <<sessions, disk, goroutines, store, view>>

\* Logins and calls for a service, two at a time; nobody logs out.
NextCache ==
    \/ handleGoogleCallback
    \/ \E p \in Procs :
        \/ getOrCreateSpreadsheetService(p)
        \/ ServiceConstruct(p)
        \/ Return(p)

SpecCache == Init /\ [][NextCache]_vars

Returned(p) == pc[p] = "done" /\ req[p].op = "service"

\* C25: with no logout, at most one client is ever made for an email, every
\* call that returns a client returns the one the cache holds for the
\* email, and a call whose construction fails leaves the cache as it was.
C25_OneClientPerIdentity ==
    /\ [](/\ \A i, j \in DOMAIN serviceCache.built :
                serviceCache.built[i] = serviceCache.built[j] => i = j
          /\ \A p \in Procs :
                (Returned(p) /\ ~loc[p].failed)
                => /\ Has(serviceCache.entries, req[p].email)
                   /\ loc[p].client = serviceCache.entries[req[p].email]
                   /\ serviceCache.built[loc[p].client] = req[p].email)
    /\ [][\A p \in Procs :
            (pc[p] = "gs_lock" /\ pc'[p] = "done" /\ loc'[p].failed)
            => serviceCache' = serviceCache /\ ~Has(serviceCache.entries, req[p].email)]_vars

\* Two calls for one email missed the cache together; one has failed on a
\* nil token, the other has made the client; a second email has its own.
C25_Witness ==
    /\ Returned("p1") /\ loc["p1"].failed
    /\ Returned("p2") /\ loc["p2"].client # 0 /\ req["p2"].email = req["p1"].email
    /\ Len(serviceCache.built) = 2

(* ------------------------------------------------------------------ *)
(* Failing calls to the external store                                  *)
(* ------------------------------------------------------------------ *)

\* Additions and removals one at a time; the service may not be had, and
\* every call to the external store may fail (an error of the store, or the
\* request's context cancelled at its timeout).
NextFaults ==
    \/ handleGoogleCallbackEmployer
    \/ \E p \in Serial :
        \/ handleEmployeesPostSheets(p)
        \/ EmployeesPostRoster(p)
        \/ EmployeesPostIndex(p)
        \/ EmployeesPostShareOf(p, Unreliable)
        \/ EmployeesRegenerateOf(p, "ea_regen", "ea_mgmt", Unreliable)
        \/ EmployeesManagementOf(p, "ea_mgmt", "ea_share", Unreliable)
        \/ handleEmployeesDelete(p)
        \/ EmployeesDeleteRoster(p)
        \/ EmployeesDeleteRevokeOf(p, Unreliable)
        \/ EmployeesRegenerateOf(p, "ed_regen", "ed_mgmt", Unreliable)
        \/ EmployeesManagementOf(p, "ed_mgmt", "ed_revoke", Unreliable)
        \/ EmployeesDeleteIndex(p)
        \/ Return(p)

SpecFaults == InitSheets /\ [][NextFaults]_vars

\* The steps of an addition or a removal after its roster change.
AfterRoster == {"ea_index", "ea_share", "ea_regen", "ea_mgmt",
                "ed_revoke", "ed_regen", "ed_mgmt", "ed_index"}

\* C26: once an addition or a removal has changed the roster, no later
\* step of the request changes the roster again, whatever fails, and the
\* request ends with its change in place: the added employee on the roster
\* and the shop in the employee's list, the removed employee on neither.
C26_NoRollback ==
    /\ [](\A p \in Serial :
            (pc[p] = "done" /\ resp[p].code = 200) =>
                /\ req[p].op = "employeesPost"
                   => /\ InRoster(req[p].emp, req[p].shop)
                      /\ req[p].shop \in IndexOf(req[p].emp)
                /\ req[p].op = "employeesDelete"
                   => /\ ~InRoster(req[p].emp, req[p].shop)
                      /\ req[p].shop \notin IndexOf(req[p].emp))
    /\ [][\A p \in Serial :
            (pc[p] \in AfterRoster /\ pc'[p] # pc[p])
            => /\ heap' = heap /\ employerShops' = employerShops
               /\ pc[p] \notin {"ea_index", "ed_index"} => employeeShops' = employeeShops]_vars

\* An addition has answered 200 after a call to the external store failed.
C26_Witness ==
    \E p \in Serial :
        /\ pc[p] = "done" /\ resp[p].code = 200 /\ req[p].op = "employeesPost"
        /\ loc[p].failed
        /\ InRoster(req[p].emp, req[p].shop)

(* ------------------------------------------------------------------ *)
(* calculateHours                                                       *)
(* ------------------------------------------------------------------ *)

Digits == <<"0", "1", "2", "3", "4", "5", "6", "7", "8", "9">>
IsDigit(c) == \E i \in DOMAIN Digits : Digits[i] = c
DigitValue(c) == (CHOOSE i \in DOMAIN Digits : Digits[i] = c) - 1

\* parseInt of the n digits (one or two) of `cell` from position i
Number(cell, i, n) ==
    IF n = 1 THEN DigitValue(cell[i]) ELSE 10 * DigitValue(cell[i]) + DigitValue(cell[i + 1])

\* /(\d{1,2}):(\d{2})-(\d{1,2}):(\d{2})/ matches at position i of `cell`
\* with a digits in the first group and b digits in the third.
Shape(cell, i, a, b) ==
    /\ i + a + b + 6 <= Len(cell)
    /\ \A k \in 0..(a - 1) : IsDigit(cell[i + k])
    /\ cell[i + a] = ":"
    /\ IsDigit(cell[i + a + 1]) /\ IsDigit(cell[i + a + 2])
    /\ cell[i + a + 3] = "-"
    /\ \A k \in 0..(b - 1) : IsDigit(cell[i + a + 4 + k])
    /\ cell[i + a + 4 + b] = ":"
    /\ IsDigit(cell[i + a + 5 + b]) /\ IsDigit(cell[i + a + 6 + b])

\* The four groups of a match, as [startHour, startMin, endHour, endMin].
Groups(cell, i, a, b) ==
    [startHour |-> Number(cell, i, a), startMin |-> Number(cell, i + a + 1, 2),
     endHour |-> Number(cell, i + a + 4, b), endMin |-> Number(cell, i + a + 5 + b, 2)]

\* timeRange.match(...): the match that starts first in the cell.  (At one
\* position at most one pair of group lengths fits.)
Match(cell) ==
    LET at == {i \in 1..Len(cell) : \E a, b \in {1, 2} : Shape(cell, i, a, b)}
    IN  IF at = {} THEN <<>>
        ELSE LET i == CHOOSE x \in at : \A y \in at : x <= y
                 ab == CHOOSE ab \in {1, 2} \X {1, 2} : Shape(cell, i, ab[1], ab[2])
             IN  <<Groups(cell, i, ab[1], ab[2])>>

\* calculateHours(timeRange), in minutes: startHour + startMin / 60 is
\* 60 * startHour + startMin minutes.
calculateHours(cell) ==
    IF cell = <<>> \/ cell = <<"D", "W">> \/ Match(cell) = <<>> THEN 0
    ELSE LET m == Match(cell)[1]
             startTime == 60 * m.startHour + m.startMin
             endTime == 60 * m.endHour + m.endMin
         IN  IF endTime < startTime THEN endTime + 24 * 60 - startTime
             ELSE endTime - startTime

\* The cells given to calculateHours: a time range put together from hour
\* and minute fields, with or without text around it, and the cells that
\* hold no time range.
HourFields == {<<"9">>, <<"0", "9">>, <<"1", "7">>, <<"2", "2">>, <<"0", "6">>, <<"2", "5">>,
               <<"0", "0">>, <<"9", "9">>}
MinuteFields == {<<"0", "0">>, <<"3", "0">>, <<"9", "9">>, <<"0">>}
Around == {<<>>, <<"a">>, <<"1">>, <<" ">>}
CellInputs ==
    {<<>>, <<"D", "W">>, <<"a", "b", "c">>, <<"d", "w">>} \cup
    {pre \o h1 \o <<":">> \o m1 \o sep \o h2 \o <<":">> \o m2 \o post :
        pre \in Around, post \in Around, h1 \in HourFields, h2 \in HourFields,
        m1 \in MinuteFields, m2 \in MinuteFields, sep \in {<<"-">>, <<" ", "-", " ">>}}

\* The table holds a cell whose hours are still to be computed.
InitHours ==
    /\ employerShops = (UX :> ("s1" :> [ID |-> "s1", Name |-> <<"m">>, ref |-> 1]))
    /\ heap = <<[Employees |-> EmptyMap, Spreadsheets |-> EmptyMap]>>
    /\ employeeShops = EmptyMap
    /\ sessions = EmptyMap
    /\ pc = [p \in Procs |-> "idle"]
    /\ req = [p \in Procs |-> NoReq]
    /\ loc = [p \in Procs |-> NoLoc]
    /\ resp = [p \in Procs |-> NoResp]
    /\ disk = [names |-> EmptyMap, inodes |-> EmptyMap, failed |-> FALSE]
    /\ goroutines = <<>>
    /\ store = EmptyMap
    /\ serviceCache = [entries |-> EmptyMap, built |-> <<>>]
    /\ \E cell \in CellInputs : view = [cell |-> cell, hours |-> 0, done |-> FALSE, table |-> <<>>]

\* The table computes the hours of its cell.
ComputeHours ==
    /\ ~view.done
    /\ view' = [view EXCEPT !.hours = calculateHours(view.cell), !.done = TRUE]
    /\ UNCHANGED <<employerShops, heap, employeeShops, sessions, pc, req, loc, resp,
                   disk, goroutines, store, serviceCache>>

SpecHours == InitHours /\ [][ComputeHours]_vars

\* A cell that is a time range and nothing else: hours of one or two
\* digits up to 23, minutes of two digits up to 59.
WellFormedRange(cell) ==
    \E a, b \in {1, 2} :
        /\ Shape(cell, 1, a, b)
        /\ Len(cell) = a + b + 7
        /\ Groups(cell, 1, a, b).startHour <= 23 /\ Groups(cell, 1, a, b).endHour <= 23
        /\ Groups(cell, 1, a, b).startMin <= 59 /\ Groups(cell, 1, a, b).endMin <= 59

\* C27: the hours computed for a cell are the time from start to end (the
\* end taken on the next day when it is before the start) when the cell is a
\* well-formed time range, and 0 for "DW", for the empty cell and for every
\* other cell.
C27_HoursOfCell ==
    view.done =>
        IF WellFormedRange(view.cell)
        THEN LET g == Match(view.cell)[1]
                 from == 60 * g.startHour + g.startMin
                 to == 60 * g.endHour + g.endMin
             IN  view.hours = (to - from + 24 * 60) % (24 * 60)
        ELSE view.hours = 0

(* ------------------------------------------------------------------ *)
(* The shops of an employee                                             *)
(* ------------------------------------------------------------------ *)

\* Shop lists are asked for while additions and removals are served.
NextList ==
    \/ handleGoogleCallback
    \/ \E p \in Procs :
        \/ handleShopsGet(p)
        \/ handleEmployeesPostSheets(p)
        \/ EmployeesPostRoster(p)
        \/ EmployeesPostIndex(p)
        \/ EmployeesPostShare(p)
        \/ handleEmployeesDelete(p)
        \/ EmployeesDeleteRoster(p)
        \/ EmployeesDeleteRevoke(p)
        \/ EmployeesDeleteIndex(p)
        \/ Return(p)

SpecList == Init /\ [][NextList]_vars

\* The shops, of any employer, that have `email` on their roster.
RosterShops(email) ==
    {ShopInfo(employerShops[e][id]) :
        <<e, id>> \in {x \in (DOMAIN employerShops) \X ShopIds :
                          /\ Has(employerShops[x[1]], x[2])
                          /\ Has(Employees(employerShops[x[1]][x[2]]), email)}}

\* C28: GET /api/shops answers an employee with the shops, of all
\* employers, whose roster holds the employee, and an employer with the
\* shops stored under the employer, in every state of the registry.
C28_ShopsOfSession ==
    [][\A p \in Procs :
          (Starts(p) /\ req'[p].op = "shopsGet")
          => /\ req'[p].role = "employee"
                => resp'[p].shops = RosterShops(req'[p].email)
             /\ req'[p].role = "employer"
                => resp'[p].shops = ShopsOfEmployer(req'[p].email)]_vars

\* C29: with no addition or removal in progress, whoever holds a read
\* grant on a document in a shop's document index is on the roster of that
\* shop.
C29_GrantsWithinRoster ==
    Quiescent =>
        \A e \in DOMAIN employerShops : \A id \in DOMAIN employerShops[e] :
            LET shop == employerShops[e][id]
                index == Spreadsheets(shop)
            IN  \A year \in DOMAIN index :
                  Has(store, index[year])
                  => store[index[year]].grants \subseteq DOMAIN Employees(shop)

\* C30: no step of a request made under a session of role employee changes
\* the registry: the rosters, the reverse index and the document index of
\* every shop are after the step what they were before it.
C30_EmployeeChangesNothing ==
    [][\A p \in Procs :
          (/\ pc'[p] # pc[p]
           /\ (IF pc[p] = "idle" THEN req'[p].role ELSE req[p].role) = "employee")
          => Reg' = Reg]_vars

\* C40: the hours computed for a cell, in whole minutes, are at least 0
\* and less than 24 hours, whatever the cell holds.
C40_HoursWithinDay ==
    view.done => (0 <= view.hours /\ view.hours < 24 * 60)

(* ------------------------------------------------------------------ *)
(* The role of a session                                                *)
(* ------------------------------------------------------------------ *)

handleGoogleCallbackAnyone == handleGoogleCallbackSessionOf(Identities)

\* Logins of every identity, touches and logouts, while the employer adds
\* and removes the employee.
NextRoles ==
    \/ handleGoogleCallbackAnyone
    \/ \E p \in Procs :
        \/ handleUser(p)
        \/ handleUserTouch(p)
        \/ handleLogout(p)
        \/ handleEmployeesPostSheets(p)
        \/ EmployeesPostRoster(p)
        \/ EmployeesPostIndex(p)
        \/ EmployeesPostShare(p)
        \/ handleEmployeesDelete(p)
        \/ EmployeesDeleteRoster(p)
        \/ EmployeesDeleteRevoke(p)
        \/ EmployeesDeleteIndex(p)
        \/ Return(p)

SpecRoles == Init /\ [][NextRoles]_vars

\* C38: every session in the store has the role employer or employee, and
\* no step changes the role of a session that stays in the store.
C38_SessionRoles ==
    /\ [](\A t \in DOMAIN sessions : sessions[t].role \in {"employer", "employee"})
    /\ [][\A t \in (DOMAIN sessions) \cap (DOMAIN sessions') :
            sessions'[t].role = sessions[t].role]_vars

\* A session of role employee has been touched after its identity left
\* every roster: a login of the identity would now be refused.
C38_Witness ==
    \E t \in DOMAIN sessions, p \in Procs :
        /\ sessions[t].role = "employee"
        /\ getUserRole(sessions[t].email) = "unauthorized"
        /\ pc[p] = "done" /\ req[p].op = "user" /\ req[p].token = t
        /\ resp[p].code = 200

(* ------------------------------------------------------------------ *)
(* The keys of a roster                                                 *)
(* ------------------------------------------------------------------ *)

\* Additions whose email comes with and without blanks around it.
KeyInputs ==
    {[emp |-> e, name |-> n, rate |-> InitRate] :
        e \in {UA, <<" ", "a">>, <<"b", " ">>}, n \in {<<"n">>, <<"k">>}}

handleEmployeesPostKeys(p) == handleEmployeesPostOf(p, KeyInputs)

\* Additions and removals, one request at a time.
NextKeys ==
    \/ handleGoogleCallbackEmployer
    \/ \E p \in Serial :
        \/ handleEmployeesPostKeys(p)
        \/ EmployeesPostRoster(p)
        \/ EmployeesPostIndex(p)
        \/ EmployeesPostShare(p)
        \/ handleEmployeesDelete(p)
        \/ EmployeesDeleteRoster(p)
        \/ EmployeesDeleteRevoke(p)
        \/ EmployeesDeleteIndex(p)
        \/ Return(p)

SpecKeys == Init /\ [][NextKeys]_vars

\* C39: every entry of a roster is stored under its own email, and, with
\* no request in progress, the reverse index has the shop under that same
\* key.
C39_KeyIsEmail ==
    \A e \in DOMAIN employerShops : \A id \in DOMAIN employerShops[e] :
        LET roster == Employees(employerShops[e][id]) IN
        \A k \in DOMAIN roster :
            /\ roster[k].Email = k
            /\ Quiescent => id \in Range(ShopIDsOf(k))

(* ------------------------------------------------------------------ *)
(* Documents found by their name                                        *)
(* ------------------------------------------------------------------ *)

\* Clients that are built in a run.
MaxClients == 3

\* s.mutex of client c is held by a handler inside
\* CreateWorkScheduleSpreadsheet.
Held(c) ==
    \E q \in Procs : loc[q].client = c /\ pc[q] \in {"cw_find", "cw_create", "cw_record"}

\* What getOrCreateSpreadsheetService returns for the identity, and the
\* cache after the call.
ServiceOf(email) ==
    IF Cached(email) THEN serviceCache.entries[email] ELSE Len(serviceCache.built) + 1

CacheAfter(email) ==
    IF Cached(email) THEN serviceCache
    ELSE [entries |-> Put(serviceCache.entries, email, ServiceOf(email)),
          built |-> Append(serviceCache.built, email)]

\* handleSpreadsheet after the shop: the service of the session's identity,
\* then GetSpreadsheetById for the indexed id, whose outcomes are `outcomes`.
SpreadsheetServiceOf(p, outcomes) ==
    /\ pc[p] = "ss_lookup"
    /\ Cached(req[p].email) \/ Len(serviceCache.built) < MaxClients
    /\ RegSame
    /\ serviceCache' = CacheAfter(req[p].email)
    /\ LET index == Spreadsheets(loc[p].shop)
           l == [loc[p] EXCEPT !.client = ServiceOf(req[p].email)]
       IN  \/ /\ Has(index, req[p].year)
              /\ \E ok \in outcomes :
                    \/ /\ ok
                       /\ Goto(p, req[p], "ss_reply")
                       /\ Locals(p, [l EXCEPT !.doc = index[req[p].year]], FALSE)
                    \/ /\ ~ok
                       /\ Goto(p, req[p], "ss_evict")
                       /\ Locals(p, [l EXCEPT !.stale = index[req[p].year]], FALSE)
           \/ /\ ~Has(index, req[p].year)
              /\ Goto(p, req[p], "ss_find")
              /\ Locals(p, l, FALSE)
    /\ UNCHANGED <<sessions, disk, goroutines, store, view>>

SpreadsheetService(p) == SpreadsheetServiceOf(p, Reliable)
SpreadsheetServiceFailing(p) == SpreadsheetServiceOf(p, Unreliable)

\* if session.Role != "employer" { 404 }; CreateWorkScheduleSpreadsheet:
\* s.mutex.Lock()
CreateWorkScheduleSpreadsheet(p) ==
    /\ pc[p] = "ss_find"
    /\ RegSame
    /\ \/ /\ req[p].role # "employer"
          /\ Reply(p, req[p], Status(404))
       \/ /\ req[p].role = "employer"
          /\ ~Held(loc[p].client)
          /\ Goto(p, req[p], "cw_find")
    /\ Locals(p, loc[p], FALSE)
    /\ UNCHANGED <<sessions, disk, goroutines, store, serviceCache, view>>

\* The files whose name the query of findSpreadsheetByNameUnsafe matches.
Named(fileName) == {d \in DOMAIN store : store[d].name = fileName}

\* findSpreadsheetByNameUnsafe: fileList.Files[0], in the order of the
\* answer of the store, or "spreadsheet not found".
findSpreadsheetByNameUnsafe(p) ==
    /\ pc[p] = "cw_find"
    /\ RegSame
    /\ LET files == Named(FileName(loc[p].shop.Name, req[p].year)) IN
        \/ /\ files = {}
           /\ Goto(p, req[p], "cw_create")
           /\ Locals(p, loc[p], FALSE)
        \/ \E d \in files :
              /\ Goto(p, req[p], "cw_record")
              /\ Locals(p, [loc[p] EXCEPT !.doc = d], FALSE)
    /\ UNCHANGED <<sessions, disk, goroutines, store, serviceCache, view>>

\* s.sheetsService.Spreadsheets.Create(spreadsheet): a document with the
\* file name as its title and thirteen empty tabs, under an id of the store.
SpreadsheetsCreate(p) ==
    /\ pc[p] = "cw_create"
    /\ RegSame
    /\ \E d \in DocIds \ DOMAIN store :
          /\ store' = Put(store, d,
                          [NoDocument EXCEPT
                              !.name = FileName(loc[p].shop.Name, req[p].year),
                              !.origin = <<req[p].shop, req[p].year>>])
          /\ Goto(p, req[p], "cw_record")
          /\ Locals(p, [loc[p] EXCEPT !.doc = d, !.fresh = TRUE], TRUE)
    /\ UNCHANGED <<sessions, disk, goroutines, serviceCache, view>>

\* shop.Spreadsheets[year] = id under employerShopsMutex, go saveShopsData(),
\* for a created document initializeManagementSheetUnsafe, and the deferred
\* s.mutex.Unlock().
CreateRecord(p) ==
    /\ pc[p] = "cw_record"
    /\ LET shop == ShopOf(loc[p].target, req[p].shop) IN
        /\ heap' = [heap EXCEPT ![shop.ref].Spreadsheets = Put(@, req[p].year, loc[p].doc)]
        /\ UNCHANGED <<employerShops, employeeShops>>
        /\ \E order \in Orders(Employees(shop)) :
              store' = IF loc[p].fresh
                       THEN initializeManagementSheet(store, loc[p].doc, shop, order)
                       ELSE store
    /\ Goto(p, req[p], "ss_tabs")
    /\ Locals(p, [loc[p] EXCEPT !.saves = @ \cup ShopsFile], FALSE)
    /\ UNCHANGED <<sessions, disk, goroutines, serviceCache, view>>

\* The grants of the loop over shop.Employees.
ShareWithRoster(st, doc, emails) == [st EXCEPT ![doc].grants = @ \cup emails]

\* created = true; CreateMonthlySchedule for the twelve months with the
\* roster of the handler's shop, and the shares with that roster.
SpreadsheetTabs(p) ==
    /\ pc[p] = "ss_tabs"
    /\ ~Held(loc[p].client)
    /\ RegSame
    /\ LET employees == Employees(loc[p].shop) IN
        \E orders \in [Months -> Orders(employees)] :
            store' = ShareWithRoster(
                         RegenerateAllMonthlySchedules(store, loc[p].doc, employees,
                                                       orders, req[p].year, Months),
                         loc[p].doc, DOMAIN employees)
    /\ Goto(p, req[p], "ss_reply")
    /\ Locals(p, [loc[p] EXCEPT !.created = TRUE], TRUE)
    /\ UNCHANGED <<sessions, disk, goroutines, serviceCache, view>>

\* The table the client sends after an entry in the first day of the first
\* employee: the header and the row of the day.
Entry == <<"8", ":", "0", "0", "-", "1", "6", ":", "0", "0">>
EnteredData(grid) == <<grid[1], <<grid[2][1], Entry>>>>

\* POST /api/schedule/update for the first month, with the table written
\* to the tab by WriteSpreadsheetData.
handleUpdateScheduleData(p) ==
    /\ pc[p] = "idle"
    /\ RegSame
    /\ \E t \in DOMAIN sessions, id \in ShopIds, year \in Years :
        LET s == sessions[t]
            r0 == Request("scheduleUpdate", s, "", <<>>, <<>>, 0, 0)
            r == [r0 EXCEPT !.shop = id, !.year = year]
            index == Spreadsheets(ShopOf(s.email, id))
        IN  \/ /\ RoleForbids(s.role)
               /\ Reply(p, r0, Status(403))
               /\ Locals(p, NoLoc, FALSE)
               /\ UNCHANGED <<store, serviceCache>>
            \/ /\ ~RoleForbids(s.role)
               /\ ~ShopExists(s.email, id) \/ ~Has(index, year)
               /\ Reply(p, r, Status(404))
               /\ Locals(p, NoLoc, FALSE)
               /\ UNCHANGED <<store, serviceCache>>
            \/ /\ ~RoleForbids(s.role)
               /\ ShopExists(s.email, id)
               /\ Has(index, year)
               /\ Cached(s.email) \/ Len(serviceCache.built) < MaxClients
               /\ ~Held(ServiceOf(s.email))
               /\ serviceCache' = CacheAfter(s.email)
               /\ LET doc == index[year] IN
                    IF Has(store, doc) /\ Len(TabOf(doc, 1)) >= 2
                    THEN /\ store' = [store EXCEPT ![doc].tabs =
                                         Put(@, 1, WriteValues(TabOf(doc, 1),
                                                               EnteredData(TabOf(doc, 1))))]
                         /\ Reply(p, r, Status(200))
                         /\ Locals(p, [NoLoc EXCEPT !.doc = doc,
                                                    !.client = ServiceOf(s.email)], TRUE)
                    ELSE /\ store' = store
                         /\ Reply(p, r, Status(500))
                         /\ Locals(p, [NoLoc EXCEPT !.client = ServiceOf(s.email)], FALSE)
    /\ UNCHANGED <<sessions, disk, goroutines, view>>

\* One employer and one shop, two requests at a time; the store may reject
\* the id that the shop's index holds.
NextFound ==
    \/ handleGoogleCallbackEmployer
    \/ \E p \in Procs :
        \/ handleSpreadsheet(p)
        \/ SpreadsheetServiceFailing(p)
        \/ SpreadsheetEvict(p)
        \/ CreateWorkScheduleSpreadsheet(p)
        \/ findSpreadsheetByNameUnsafe(p)
        \/ SpreadsheetsCreate(p)
        \/ CreateRecord(p)
        \/ SpreadsheetTabs(p)
        \/ SpreadsheetReply(p)
        \/ handleUpdateScheduleData(p)
        \/ Return(p)

SpecFound == Init /\ [][NextFound]_vars

\* An entry of the employer is in the first month of document d.
Entered(st, d) ==
    /\ Has(st, d)
    /\ Has(st[d].tabs, 1)
    /\ Len(st[d].tabs[1]) >= 2
    /\ Len(st[d].tabs[1][2]) >= 2
    /\ st[d].tabs[1][2][2] = Entry

\* C33: the part of a spreadsheet request that follows find-or-create
\* leaves the month tabs of a document that was found by its name, and
\* that holds an entry of the employer, as they were.
C33_FoundKeepsTabs ==
    [][\A p \in Procs :
          (/\ pc[p] = "ss_tabs" /\ pc'[p] # "ss_tabs"
           /\ ~loc[p].fresh
           /\ Entered(store, loc[p].doc)) =>
              store'[loc[p].doc].tabs = store[loc[p].doc].tabs]_vars

\* One employer who creates shops and asks for their documents, one request
\* at a time; every call to the external store succeeds.
NextByName ==
    \/ handleGoogleCallbackEmployer
    \/ \E p \in Serial :
        \/ handleShopsPost(p)
        \/ handleSpreadsheet(p)
        \/ SpreadsheetService(p)
        \/ CreateWorkScheduleSpreadsheet(p)
        \/ findSpreadsheetByNameUnsafe(p)
        \/ SpreadsheetsCreate(p)
        \/ CreateRecord(p)
        \/ SpreadsheetTabs(p)
        \/ SpreadsheetReply(p)
        \/ Return(p)

SpecByName == Init /\ [][NextByName]_vars

\* The shops of the registry, each as <<employer, shop id>>.
AllShops == {x \in (DOMAIN employerShops) \X ShopIds : Has(employerShops[x[1]], x[2])}

\* C31: no document id is in the document index of two different shops.
C31_NoSharedDocument ==
    \A x, y \in AllShops :
        x # y => Range(Spreadsheets(ShopOf(x[1], x[2])))
                     \cap Range(Spreadsheets(ShopOf(y[1], y[2]))) = {}

\* Two requests at a time by the sessions of one employer, who may log out
\* and in; every call to the external store succeeds.
NextRelogin ==
    \/ handleGoogleCallbackSession
    \/ \E p \in Procs :
        \/ handleLogout(p)
        \/ handleSpreadsheet(p)
        \/ SpreadsheetService(p)
        \/ CreateWorkScheduleSpreadsheet(p)
        \/ findSpreadsheetByNameUnsafe(p)
        \/ SpreadsheetsCreate(p)
        \/ CreateRecord(p)
        \/ SpreadsheetTabs(p)
        \/ SpreadsheetReply(p)
        \/ Return(p)

SpecRelogin == Init /\ [][NextRelogin]_vars

\* C32: the store holds at most one document created for a shop and a
\* year, and the spreadsheet requests for a shop and a year that have
\* answered 200 have the same document.
C32_OneDocument ==
    /\ \A d, e \in DOMAIN store : store[d].origin = store[e].origin => d = e
    /\ \A p, q \in Procs :
          (/\ Answered(p, 200) /\ Answered(q, 200)
           /\ req[p].shop = req[q].shop /\ req[p].year = req[q].year) =>
              loc[p].doc = loc[q].doc

(* ------------------------------------------------------------------ *)
(* calculateTotals                                                      *)
(* ------------------------------------------------------------------ *)

\* The order of the bytes that occur in the keys of a roster.
Collation == <<" ", "a", "b", "x", "y">>
Rank(c) == CHOOSE i \in DOMAIN Collation : Collation[i] = c

\* a < b for two keys, as encoding/json sorts the keys of a map
Precedes(a, b) ==
    \E i \in 1..(Len(b)) :
        /\ \A k \in 1..(i - 1) : k <= Len(a) /\ a[k] = b[k]
        /\ i > Len(a) \/ Rank(a[i]) < Rank(b[i])

\* Object.keys(employees): the keys in the order of the response, which is
\* the sorted order in which json.NewEncoder writes shop.Employees.
ObjectKeys(employees) ==
    CHOOSE o \in Orders(employees) : \A i, j \in DOMAIN o : i < j => Precedes(o[i], o[j])

\* (num / den).toFixed(2).replace('.', ',')
Fixed2(num, den) ==
    LET h == (200 * num + den) \div (2 * den)
    IN  <<ToString(h \div 100), ",", ToString((h % 100) \div 10), ToString(h % 10)>>

\* newData.findIndex(row => row[0] === label), counted from 1; 0 for -1
FindRow(data, label) ==
    LET at == {r \in DOMAIN data : data[r] # <<>> /\ data[r][1] = label}
    IN  IF at = {} THEN 0 ELSE CHOOSE r \in at : \A q \in at : r <= q

\* totalHours of column c, in minutes: the rows from the second to the one
\* before the hours row that have a first cell and a cell in the column.
RECURSIVE TotalMinutes(_, _, _, _)
TotalMinutes(data, c, r, last) ==
    IF r > last THEN 0
    ELSE (IF /\ data[r] # <<>> /\ data[r][1] # Blank
             /\ c <= Len(data[r]) /\ data[r][c] # Blank
          THEN calculateHours(data[r][c]) ELSE 0)
         + TotalMinutes(data, c, r + 1, last)

\* calculateTotals(currentData) with the employees of the response
calculateTotals(data, employees) ==
    LET keys == ObjectKeys(employees)
        numEmployees == Len(keys)
        hoursRow == FindRow(data, <<"SUMA GODZIN">>)
        wagesRow == FindRow(data, <<"WYPLATA">>)
        minutes(c) == TotalMinutes(data, c, 2, hoursRow - 1)
        With(row, cell(_)) ==
            [c \in 1..Larger(Len(row), numEmployees + 1) |->
                IF c \in 2..(numEmployees + 1) THEN cell(c)
                ELSE IF c <= Len(row) THEN row[c] ELSE Blank]
        hours(c) == Fixed2(minutes(c), 60)
        wage(c) == Fixed2(minutes(c) * employees[keys[c - 1]].HourlyRate, 600)
    IN  IF Len(data) < 3 \/ hoursRow = 0 \/ wagesRow = 0 THEN data
        ELSE [r \in DOMAIN data |->
                IF r = wagesRow THEN With(data[r], wage)
                ELSE IF r = hoursRow THEN With(data[r], hours)
                ELSE data[r]]

RosterOfTwo ==
    (UA :> [Email |-> UA, Name |-> <<"n">>, HourlyRate |-> InitRate]) @@
    (UB :> [Email |-> UB, Name |-> <<"k">>, HourlyRate |-> DefaultRate])

\* One shop with two employees of different rates and a new document for
\* 2025; nothing is shown in the browser.
InitTotals ==
    /\ employerShops = (UX :> ("s1" :> [ID |-> "s1", Name |-> <<"m">>, ref |-> 1]))
    /\ heap = <<[Employees |-> RosterOfTwo, Spreadsheets |-> (2025 :> "d1")]>>
    /\ employeeShops = [e \in DOMAIN RosterOfTwo |-> <<"s1">>]
    /\ sessions = EmptyMap
    /\ pc = [p \in Procs |-> "idle"]
    /\ req = [p \in Procs |-> NoReq]
    /\ loc = [p \in Procs |-> NoLoc]
    /\ resp = [p \in Procs |-> NoResp]
    /\ disk = [names |-> EmptyMap, inodes |-> EmptyMap, failed |-> FALSE]
    /\ goroutines = <<>>
    /\ store = ("d1" :> [NoDocument EXCEPT !.name = FileName(<<"m">>, 2025),
                                           !.origin = <<"s1", 2025>>])
    /\ serviceCache = [entries |-> EmptyMap, built |-> <<>>]
    /\ view = [cell |-> <<>>, hours |-> 0, done |-> FALSE, table |-> <<>>]

\* The twelve tabs of the document are written.
Regenerated(doc) == DOMAIN store[doc].tabs = Months

\* handleUpdateSchedule for the first month, after the regeneration: the
\* table with a shift on the first day in the first employee column.
EnterShift ==
    /\ Regenerated("d1")
    /\ ~Entered(store, "d1")
    /\ store' = [store EXCEPT !["d1"].tabs =
                    Put(@, 1, WriteValues(TabOf("d1", 1), EnteredData(TabOf("d1", 1))))]
    /\ UNCHANGED <<employerShops, heap, employeeShops, sessions, pc, req, loc, resp,
                   disk, goroutines, serviceCache, view>>

\* The browser shows the first month: the data and the employees of the
\* response of handleScheduleData, and the totals of calculateTotals.
ShowSchedule ==
    /\ Entered(store, "d1")
    /\ ~view.done
    /\ view' = [view EXCEPT !.table = calculateTotals(ReadValues(TabOf("d1", 1)),
                                                      heap[1].Employees),
                            !.done = TRUE]
    /\ UNCHANGED <<employerShops, heap, employeeShops, sessions, pc, req, loc, resp,
                   disk, goroutines, store, serviceCache>>

NextTotals ==
    \/ RegenerateNextMonth
    \/ EnterShift
    \/ ShowSchedule

SpecTotals == InitTotals /\ [][NextTotals]_vars

\* The employee whose name a header cell carries.
Headed(employees, cell) == CHOOSE e \in DOMAIN employees : ToUpper(employees[e].Name) = cell

\* C35: the twelve tabs of a regeneration have the same header, and in the
\* table the browser shows, the i-th key of the employees object is the
\* employee named in the header of column i, and the wage of the column is
\* the hours of the column at the rate of that employee.
C35_ColumnsAreKeys ==
    /\ Regenerated("d1") => \A m \in Months : TabOf("d1", m)[1] = TabOf("d1", 12)[1]
    /\ (view.done /\ view.table # <<>>) =>
          LET employees == heap[1].Employees
              keys == ObjectKeys(employees)
              table == view.table
              wagesRow == FindRow(table, <<"WYPLATA">>)
              hoursRow == FindRow(table, <<"SUMA GODZIN">>)
          IN  \A i \in DOMAIN keys :
                LET e == Headed(employees, table[1][i + 1]) IN
                /\ keys[i] = e
                /\ table[wagesRow][i + 1] =
                      Fixed2(TotalMinutes(table, i + 1, 2, hoursRow - 1)
                                 * employees[e].HourlyRate, 600)

(* ------------------------------------------------------------------ *)
(* The mutexes                                                          *)
(* ------------------------------------------------------------------ *)

\* Goroutines that run at one time.
MaxGoroutines == 3

\* sessionsMutex, serviceCacheMutex, employerShopsMutex, employeeShopsMutex
\* and the mutex of a SpreadsheetService; all are sync.RWMutex.  The client
\* that getOrCreateSpreadsheetService builds is taken to be the client the
\* other goroutines use, so that its mutex is contended.
Mutexes == {"sessions", "serviceCache", "employerShops", "employeeShops", "client"}

Lock(mu) == [op |-> "Lock", mu |-> mu]
Unlock(mu) == [op |-> "Unlock", mu |-> mu]
RLock(mu) == [op |-> "RLock", mu |-> mu]
RUnlock(mu) == [op |-> "RUnlock", mu |-> mu]

\* Variant: the read lock of the cache is kept while LastUsed is stamped.
ServiceHit_nested ==
    <<RLock("serviceCache"), Lock("sessions"), Unlock("sessions"), RUnlock("serviceCache")>>

\* getOrCreateSpreadsheetService when the cache has the client
ServiceHit ==
    <<RLock("serviceCache"), RUnlock("serviceCache"), Lock("sessions"), Unlock("sessions")>>

\* The calls on the mutexes that a goroutine makes, in their order; what
\* lies between them (computation, calls to the external store) returns.
LockCalls(fn) ==
    CASE fn = "handleLogout" ->
            <<Lock("sessions"), Lock("serviceCache"), Unlock("serviceCache"),
              Unlock("sessions")>>
      [] fn = "getOrCreateSpreadsheetService" -> ServiceHit
      [] fn = "InitializeServices" ->
            <<RLock("serviceCache"), RUnlock("serviceCache"), Lock("serviceCache"),
              Lock("client"), Unlock("client"), Unlock("serviceCache")>>
      [] fn = "findEmployersForEmployee" ->
            <<RLock("employerShops"), RLock("employeeShops"), RUnlock("employeeShops"),
              RUnlock("employerShops")>>
      [] fn = "CreateWorkScheduleSpreadsheet" ->
            <<Lock("client"), Lock("employerShops"), Unlock("employerShops"),
              RLock("employerShops"), RUnlock("employerShops"), Unlock("client")>>
      [] fn = "handleEmployees" ->
            <<RLock("sessions"), RUnlock("sessions"), Lock("sessions"), Unlock("sessions"),
              RLock("employerShops"), RUnlock("employerShops"),
              Lock("employerShops"), Unlock("employerShops"),
              Lock("employeeShops"), Unlock("employeeShops")>>
            \o ServiceHit \o
            <<Lock("client"), Unlock("client"),
              Lock("client"), RLock("employerShops"), RUnlock("employerShops"),
              Unlock("client")>>
      \* saveShopsData, then saveEmployeeShopsData
      [] fn = "saveShopsData" ->
            <<RLock("employerShops"), RUnlock("employerShops"),
              RLock("employeeShops"), RUnlock("employeeShops")>>
      [] fn = "cleanupExpiredSessions" ->
            <<Lock("sessions"), Unlock("sessions")>>

Functions ==
    {"handleLogout", "getOrCreateSpreadsheetService", "InitializeServices",
     "findEmployersForEmployee", "CreateWorkScheduleSpreadsheet", "handleEmployees",
     "saveShopsData", "cleanupExpiredSessions"}

\* A goroutine before its first call; `todo` are the calls it has yet to
\* make, `at` is "pending" while its Lock waits for the readers to leave.
Caller(fn) ==
    [fn |-> fn, at |-> "run", todo |-> LockCalls(fn), data |-> <<>>, fd |-> 0,
     err |-> FALSE]

\* The calls goroutine g has made.
Made(g) == SubSeq(LockCalls(g.fn), 1, Len(LockCalls(g.fn)) - Len(g.todo))

Count(calls, call) == Cardinality({k \in DOMAIN calls : calls[k] = call})

Writes(g, mu) == Count(Made(g), Lock(mu)) > Count(Made(g), Unlock(mu))
Reads(g, mu) == Count(Made(g), RLock(mu)) > Count(Made(g), RUnlock(mu))

\* g has announced a Lock of mu and waits for the readers.
Pending(g, mu) == g.at = "pending" /\ Head(g.todo) = Lock(mu)

Others(i) == (DOMAIN goroutines) \ {i}

\* RLock returns when no writer holds the mutex or has announced itself.
CanRLock(i) ==
    /\ goroutines[i].todo # <<>>
    /\ Head(goroutines[i].todo).op = "RLock"
    /\ \A j \in Others(i) :
          LET mu == Head(goroutines[i].todo).mu IN
          ~Writes(goroutines[j], mu) /\ ~Pending(goroutines[j], mu)

\* Lock first takes the writers' mutex and announces itself to the readers,
\* which it can when no other writer holds the mutex or has announced itself.
CanAnnounce(i) ==
    /\ goroutines[i].todo # <<>>
    /\ Head(goroutines[i].todo).op = "Lock"
    /\ goroutines[i].at = "run"
    /\ \A j \in Others(i) :
          LET mu == Head(goroutines[i].todo).mu IN
          ~Writes(goroutines[j], mu) /\ ~Pending(goroutines[j], mu)

\* and returns when the readers that held the mutex have left.
CanLock(i) ==
    /\ goroutines[i].todo # <<>>
    /\ Head(goroutines[i].todo).op = "Lock"
    /\ goroutines[i].at = "pending"
    /\ \A j \in Others(i) : ~Reads(goroutines[j], Head(goroutines[i].todo).mu)

CanUnlock(i) ==
    /\ goroutines[i].todo # <<>>
    /\ Head(goroutines[i].todo).op \in {"Unlock", "RUnlock"}

LocksOnly ==
    UNCHANGED <<employerShops, heap, employeeShops, sessions, pc, req, loc, resp,
                disk, store, serviceCache, view>>

MutexRLock(i) ==
    /\ CanRLock(i)
    /\ goroutines' = [goroutines EXCEPT ![i].todo = Tail(@)]
    /\ LocksOnly

MutexLockAnnounce(i) ==
    /\ CanAnnounce(i)
    /\ goroutines' = [goroutines EXCEPT ![i].at = "pending"]
    /\ LocksOnly

MutexLock(i) ==
    /\ CanLock(i)
    /\ goroutines' = [goroutines EXCEPT ![i].at = "run", ![i].todo = Tail(@)]
    /\ LocksOnly

MutexUnlock(i) ==
    /\ CanUnlock(i)
    /\ goroutines' = [goroutines EXCEPT ![i].todo = Tail(@)]
    /\ LocksOnly

\* Any three of the functions run at once, each from its first call.
InitLocks ==
    /\ employerShops = (UX :> ("s1" :> [ID |-> "s1", Name |-> <<"m">>, ref |-> 1]))
    /\ heap = <<[Employees |-> EmptyMap, Spreadsheets |-> EmptyMap]>>
    /\ employeeShops = EmptyMap
    /\ sessions = EmptyMap
    /\ pc = [p \in Procs |-> "idle"]
    /\ req = [p \in Procs |-> NoReq]
    /\ loc = [p \in Procs |-> NoLoc]
    /\ resp = [p \in Procs |-> NoResp]
    /\ disk = [names |-> EmptyMap, inodes |-> EmptyMap, failed |-> FALSE]
    /\ \E fns \in [1..MaxGoroutines -> Functions] :
          goroutines = [i \in 1..MaxGoroutines |-> Caller(fns[i])]
    /\ store = EmptyMap
    /\ serviceCache = [entries |-> EmptyMap, built |-> <<>>]
    /\ view = [cell |-> <<>>, hours |-> 0, done |-> FALSE, table |-> <<>>]

NextLocks ==
    \E i \in 1..MaxGoroutines :
        \/ MutexRLock(i)
        \/ MutexLockAnnounce(i)
        \/ MutexLock(i)
        \/ MutexUnlock(i)

\* A goroutine that can run does run.
SpecLocks == InitLocks /\ [][NextLocks]_vars /\ WF_vars(NextLocks)

Finished(i) == goroutines[i].todo = <<>>

CanStep(i) == CanRLock(i) \/ CanAnnounce(i) \/ CanLock(i) \/ CanUnlock(i)

\* C37: while a goroutine has a call on a mutex to make, some goroutine can
\* make its next call, and in the end every goroutine has made all of its
\* calls.
C37_NoDeadlock ==
    /\ []((\E i \in DOMAIN goroutines : ~Finished(i)) =>
              \E i \in DOMAIN goroutines : CanStep(i))
    /\ <>[](\A i \in DOMAIN goroutines : Finished(i))

\* A logout holds sessionsMutex and waits for the cache, whose mutex a
\* goroutine that builds a client holds while it waits for the client's
\* mutex, which a goroutine inside CreateWorkScheduleSpreadsheet holds.
C37_Witness ==
    \E i, j, k \in DOMAIN goroutines :
        /\ goroutines[i].fn = "handleLogout"
        /\ Writes(goroutines[i], "sessions")
        /\ Pending(goroutines[i], "serviceCache") \/ ~CanStep(i)
        /\ goroutines[j].fn = "InitializeServices"
        /\ Writes(goroutines[j], "serviceCache")
        /\ ~CanStep(j)
        /\ goroutines[k].fn = "CreateWorkScheduleSpreadsheet"
        /\ Writes(goroutines[k], "client")

====
